---- MODULE Spec2Model ----
(***************************************************************************)
(* Model of the endcord rendering helpers (endcord_cython):                *)
(*   search.pyx    fuzzy_match_score_single, fuzzy_match_score             *)
(*   color.pyx     closest_color, int_to_rgb, convert_role_colors,         *)
(*                 binary_search, limit_width_wch, len_wch                 *)
(*   pgcurses.pyx  insstr, render                                          *)
(*   tui.pyx       safe_insch, draw_chat                                   *)
(*   media.pyx     img_to_curses                                           *)
(*                                                                         *)
(* Each group of functions has a specification of its own:                 *)
(*   SpecSearch, SpecWidth, SpecColor   one call of a pure function        *)
(*   SpecBuffer   one insstr call on the cell buffer, in one step          *)
(*   SpecRender   one render pass over a buffer and a dirty set            *)
(*   SpecPaint    two writer threads and the painter thread, which         *)
(*                take dirty_lock around every insstr call and pass        *)
(*   SpecChat     one draw_chat call on a window over the buffer           *)
(*   SpecImage    one img_to_curses call on a window over the buffer       *)
(* The variables a specification does not use stay at their initial        *)
(* value.                                                                  *)
(*                                                                         *)
(* Strings are sequences of one-character strings; an attribute word       *)
(* is a pair of its two 16-bit halves, <<flags, pair>>.  A call is         *)
(* modelled by the variables args (the arguments of the call), ret         *)
(* (what it returned) and pc ("ready" before the call, "done" after        *)
(* it; in SpecPaint the position of each thread).  Objects the code        *)
(* mutates in place (all_roles, buffer, dirty_lines) are variables of      *)
(* their own, as are the holder of dirty_lock, the screen (the draw        *)
(* operations made on it) and the locals of the threads.                   *)
(* In SpecRender ret is the call on the screen that raised, in SpecImage   *)
(* the glyph indices the call computed.                                    *)
(***************************************************************************)
EXTENDS Integers, Sequences, FiniteSets, TLC

VARIABLES pc, args, ret, all_roles, buffer, dirty_lines, failed,
          dirty_lock, screen, local

vars == <<pc, args, ret, all_roles, buffer, dirty_lines, failed,
          dirty_lock, screen, local>>

(* ------------------------------ helpers -------------------------------- *)

Max(a, b) == IF a > b THEN a ELSE b

Min(a, b) == IF a < b THEN a ELSE b

\* All sequences over S of length 0..n.
SeqsUpTo(S, n) == UNION {[1..k -> S] : k \in 0..n}

RECURSIVE SumSeq(_)
SumSeq(s) == IF s = <<>> THEN 0 ELSE Head(s) + SumSeq(Tail(s))

NoValue == "none"

(* ======================================================================= *)
(*                              search.pyx                                 *)
(* ======================================================================= *)

MaxQueryLen == 3
MaxCandLen == 3
\* Candidates are also drawn with MaxLead separator characters in front, so
\* that matches at index 10 and later (an early bonus of 0) happen.
MaxLead == 9

\* The characters queries and candidates are drawn from: two letters, an
\* upper-case letter, a separator that is no whitespace, and whitespace.
QueryChars == {"a", "b", "B", " "}
CandChars == {"a", "b", "B", "_"}
Whitespace == {" "}

\* str.lower() of one character.
LowerChar(c) == CASE c = "A" -> "a" [] c = "B" -> "b" [] OTHER -> c

\* str.lower(): every character lowered, the length kept.
Lower(s) == [i \in 1..Len(s) |-> LowerChar(s[i])]

\* str.split(): the maximal runs of non-whitespace characters, in order;
\* no empty word is ever returned.  cur is the word being collected.
RECURSIVE SplitFrom(_, _, _)
SplitFrom(s, i, cur) ==
    IF i > Len(s)
    THEN IF cur = <<>> THEN <<>> ELSE <<cur>>
    ELSE IF s[i] \in Whitespace
         THEN IF cur = <<>> THEN SplitFrom(s, i + 1, <<>>)
                            ELSE <<cur>> \o SplitFrom(s, i + 1, <<>>)
         ELSE SplitFrom(s, i + 1, Append(cur, s[i]))

Split(s) == SplitFrom(s, 1, <<>>)

\* Variant: the first match of a word is never consecutive.
MatchPointsGapFirst(cpos, last_match_pos) ==
    IF cpos = last_match_pos + 1 /\ last_match_pos # -1 THEN 10 ELSE 1

\* Variant: the two branches exchanged.
MatchPointsSwapped(cpos, last_match_pos) ==
    IF cpos = last_match_pos + 1 THEN 1 ELSE 10

\* The points of one matched character (search.pyx lines 20-23).  Positions
\* are 0-based as in the code.
MatchPoints(cpos, last_match_pos) ==
    IF cpos = last_match_pos + 1 THEN 10 ELSE 1

\* The state of the scan before its first iteration (lines 12-14).
ScanInit == [qpos |-> 0, cpos |-> 0, score |-> 0, last_match_pos |-> -1]

\* Variant: cpos advanced twice after a match.
ScanStepSkipsAfterMatch(ql, cl, s) ==
    IF ql[s.qpos + 1] = cl[s.cpos + 1]
    THEN [qpos |-> s.qpos + 1,
          cpos |-> s.cpos + 2,
          score |-> s.score + MatchPoints(s.cpos, s.last_match_pos),
          last_match_pos |-> s.cpos]
    ELSE [s EXCEPT !.cpos = s.cpos + 1]

\* One iteration of the while loop (lines 19-26).
ScanStep(ql, cl, s) ==
    IF ql[s.qpos + 1] = cl[s.cpos + 1]
    THEN [qpos |-> s.qpos + 1,
          cpos |-> s.cpos + 1,
          score |-> s.score + MatchPoints(s.cpos, s.last_match_pos),
          last_match_pos |-> s.cpos]
    ELSE [s EXCEPT !.cpos = s.cpos + 1]

\* The while loop (line 18) run from state s over the first clen characters
\* of the lowered candidate cl.
RECURSIVE ScanLoop(_, _, _, _, _)
ScanLoop(ql, qlen, cl, clen, s) ==
    IF s.qpos < qlen /\ s.cpos < clen
    THEN ScanLoop(ql, qlen, cl, clen, ScanStep(ql, cl, s))
    ELSE s

\* The early-position bonus (line 30).
EarlyBonus(s) == Max(0, 10 - s.last_match_pos)

\* fuzzy_match_score_single (lines 3-32): qlen and clen are the lengths of
\* the strings, the scan runs over their lower-case forms.
fuzzy_match_score_single(q, c) ==
    LET s == ScanLoop(Lower(q), Len(q), Lower(c), Len(c), ScanInit)
    IN  IF s.qpos = Len(q) THEN s.score + EarlyBonus(s) ELSE 0

\* The loop over the words (lines 48-53): the first word that scores 0
\* ends the call with 0.
RECURSIVE ScoreWords(_, _, _)
ScoreWords(words, c, total_score) ==
    IF words = <<>>
    THEN total_score
    ELSE LET score == fuzzy_match_score_single(Head(words), c)
         IN  IF score = 0
             THEN 0
             ELSE ScoreWords(Tail(words), c, total_score + score)

\* Variant: only the first word is scored.
fuzzy_match_score_first_word(q, c) ==
    LET words == Split(q)
    IN  IF words = <<>> THEN 0 ELSE fuzzy_match_score_single(Head(words), c)

\* fuzzy_match_score (lines 35-53).
fuzzy_match_score(q, c) == ScoreWords(Split(q), c, 0)

Lead(n) == [i \in 1..n |-> "_"]

Candidates ==
    {lead \o c : lead \in {Lead(0), Lead(MaxLead)},
                 c \in SeqsUpTo(CandChars, MaxCandLen)}

\* Queries: every string up to MaxQueryLen, and every query of two words of
\* one or two characters each.
ShortWords == UNION {[1..k -> QueryChars \ Whitespace] : k \in {1, 2}}

Queries ==
    SeqsUpTo(QueryChars, MaxQueryLen)
        \cup {u \o <<" ">> \o v : u \in ShortWords, v \in ShortWords}

SearchInputs == [query : Queries, candidate : Candidates]

InitSearch ==
    /\ pc = "ready"
    /\ args \in SearchInputs
    /\ ret = NoValue
    /\ all_roles = <<>>
    /\ buffer = <<>>
    /\ dirty_lines = {}
    /\ failed = FALSE
    /\ dirty_lock = NoValue
    /\ screen = <<>>
    /\ local = <<>>

CallFuzzyMatchScore ==
    /\ pc = "ready"
    /\ ret' = fuzzy_match_score(args.query, args.candidate)
    /\ pc' = "done"
    /\ UNCHANGED <<args, all_roles, buffer, dirty_lines, failed, dirty_lock, screen, local>>

NextSearch == CallFuzzyMatchScore

SpecSearch == InitSearch /\ [][NextSearch]_vars

(* ------------------------- claims on search.pyx ------------------------ *)

\* w is a case-insensitive, order-preserving subsequence of c.
RECURSIVE IsSubseq(_, _)
IsSubseq(w, c) ==
    \/ w = <<>>
    \/ /\ c # <<>>
       /\ \/ LowerChar(Head(w)) = LowerChar(Head(c)) /\ IsSubseq(Tail(w), Tail(c))
          \/ IsSubseq(w, Tail(c))

\* The whitespace-separated words of q: its maximal whitespace-free slices.
WordSet(q) ==
    {SubSeq(q, i, j) : <<i, j>> \in
        {ij \in (1..Len(q)) \X (1..Len(q)) :
            /\ ij[1] <= ij[2]
            /\ \A k \in ij[1]..ij[2] : q[k] \notin Whitespace
            /\ (ij[1] = 1 \/ q[ij[1] - 1] \in Whitespace)
            /\ (ij[2] = Len(q) \/ q[ij[2] + 1] \in Whitespace)}}

\* C1: the score is 0 when some word of the query is no case-insensitive
\* subsequence of the candidate, and positive when the query has a word and
\* every word is such a subsequence.
C1_AndAcrossWords ==
    pc = "done" =>
        LET W == WordSet(args.query)
        IN  /\ (\E w \in W : ~IsSubseq(w, args.candidate)) => ret = 0
            /\ (W # {} /\ \A w \in W : IsSubseq(w, args.candidate)) => ret > 0

C1_Witness ==
    /\ pc = "done"
    /\ Cardinality(WordSet(args.query)) = 2
    /\ \E w \in WordSet(args.query) : IsSubseq(w, args.candidate)
    /\ \E w \in WordSet(args.query) : ~IsSubseq(w, args.candidate)
    /\ ret = 0

\* The scan of word w over the first n characters of candidate c.
ScanOver(w, c, n) == ScanLoop(Lower(w), Len(w), Lower(c), n, ScanInit)

\* The points the first matched character of every word of the query gets
\* are given by pts(index of the match).
FirstMatchPoints(pts(_)) ==
    \A k \in 1..Len(Split(args.query)) :
        \A n \in 0..(Len(args.candidate) - 1) :
            LET w == Split(args.query)[k]
                s == ScanOver(w, args.candidate, n)
                t == ScanOver(w, args.candidate, n + 1)
            IN  (s.qpos = 0 /\ t.qpos = 1) => t.score = pts(n)

GapPoints(n) == 1

IndexZeroPoints(n) == IF n = 0 THEN 10 ELSE 1

\* C2 as stated: the first matched character of a word always contributes 1,
\* so score("ab", "ab") = 20 and score("ab", "a_b") = 10.
C2_FirstMatchIsGap ==
    pc = "done" =>
        /\ FirstMatchPoints(GapPoints)
        /\ (args.query = <<"a", "b">> /\ args.candidate = <<"a", "b">>)
               => ret = 20
        /\ (args.query = <<"a", "b">> /\ args.candidate = <<"a", "_", "b">>)
               => ret = 10

\* C2 amended: the first matched character of a word contributes 10 when it
\* is matched at index 0 of the candidate (0 = last_match_pos + 1) and 1
\* when it is matched later, so score("ab", "ab") = 29 and
\* score("ab", "a_b") = 19.
C2_FirstMatchAtZeroIsConsecutive ==
    pc = "done" =>
        /\ FirstMatchPoints(IndexZeroPoints)
        /\ (args.query = <<"a", "b">> /\ args.candidate = <<"a", "b">>)
               => ret = 29
        /\ (args.query = <<"a", "b">> /\ args.candidate = <<"a", "_", "b">>)
               => ret = 19

C2_Witness ==
    /\ pc = "done"
    /\ args.query = <<"a", "b">>
    /\ args.candidate = <<"a", "_", "b">>
    /\ ScanOver(args.query, args.candidate, 0).qpos = 0
    /\ ScanOver(args.query, args.candidate, 1).score = 10
    /\ ret = 19

\* The state is the call score(xy, x g y) for a two-character word xy.
GappedCall ==
    /\ pc = "done"
    /\ Len(args.query) = 2
    /\ \A i \in 1..2 : args.query[i] \notin Whitespace
    /\ Len(args.candidate) = 3
    /\ args.candidate[1] = args.query[1]
    /\ args.candidate[3] = args.query[2]

\* C3 as stated: for every gap character g different from y,
\* score(xy, "xy") > score(xy, x g y).
C3_ConsecutiveDominates ==
    (GappedCall /\ args.candidate[2] # args.query[2])
        => fuzzy_match_score(args.query, args.query) > ret

\* C3 amended: for every gap character g that differs from y also when case
\* is ignored, score(xy, "xy") > score(xy, x g y).
C3_ConsecutiveDominatesCaseless ==
    (GappedCall /\ LowerChar(args.candidate[2]) # LowerChar(args.query[2]))
        => fuzzy_match_score(args.query, args.query) > ret

C3_Witness ==
    /\ GappedCall
    /\ args.query = <<"a", "b">>
    /\ args.candidate = <<"a", "_", "b">>
    /\ ret = 19
    /\ fuzzy_match_score(args.query, args.query) = 29

\* The 0-based index of the earliest character of c after index prev that
\* equals ch when case is ignored; -2 when there is none.
EarliestAfter(ch, c, prev) ==
    LET hits == {j \in (prev + 1)..(Len(c) - 1) :
                    LowerChar(c[j + 1]) = LowerChar(ch)}
    IN  IF hits = {} THEN -2
        ELSE CHOOSE j \in hits : \A h \in hits : j <= h

\* The greedy left-to-right positions of the characters of w in c.
RECURSIVE GreedyFrom(_, _, _, _)
GreedyFrom(w, c, i, prev) ==
    IF i > Len(w) THEN <<>>
    ELSE LET p == EarliestAfter(w[i], c, prev)
         IN  IF p = -2 THEN <<-2>>
             ELSE <<p>> \o GreedyFrom(w, c, i + 1, p)

Greedy(w, c) == GreedyFrom(w, c, 1, -1)

\* What the characters after the first, and the early bonus, add to the
\* score of a word matched at positions p.
RestAndBonus(p) ==
    SumSeq([i \in 1..(Len(p) - 1) |->
               IF p[i + 1] = p[i] + 1 THEN 10 ELSE 1])
    + Max(0, 10 - p[Len(p)])

\* What the first matched character of w adds: the score of the scan of
\* the first character of w alone.
FirstContribution(w, c) == ScanOver(SubSeq(w, 1, 1), c, Len(c)).score

\* C4: when every word matches, each word is scanned greedily from the start
\* of the candidate, its characters after the first add 10 (index = previous
\* index + 1) or 1, its bonus is max(0, 10 - last index), and the score is
\* the sum over the words.
C4_GreedySum ==
    (pc = "done" /\ \A w \in WordSet(args.query) : IsSubseq(w, args.candidate))
        => /\ \A k \in 1..Len(Split(args.query)) :
                LET w == Split(args.query)[k]
                IN  ScanOver(w, args.candidate, Len(args.candidate)).last_match_pos
                        = Greedy(w, args.candidate)[Len(w)]
           /\ ret = SumSeq([k \in 1..Len(Split(args.query)) |->
                        LET w == Split(args.query)[k]
                        IN  FirstContribution(w, args.candidate)
                            + RestAndBonus(Greedy(w, args.candidate))])

C4_Witness ==
    /\ pc = "done"
    /\ Len(Split(args.query)) = 2
    /\ \A w \in WordSet(args.query) : IsSubseq(w, args.candidate)
    /\ \E w \in WordSet(args.query) :
           Len(w) = 2 /\ Greedy(w, args.candidate)[2] > 10
    /\ \E w \in WordSet(args.query) :
           Len(w) = 2 /\ Greedy(w, args.candidate)[2] > Greedy(w, args.candidate)[1] + 1
    /\ ret > 0

(* ======================================================================= *)
(*        color.pyx: binary_search, limit_width_wch, len_wch               *)
(* ======================================================================= *)

MaxRanges == 3
MaxTextLen == 3

\* A text is a sequence of codepoints (ord(text[i])).  The codepoints texts
\* are drawn from: a control character, a printable ASCII letter, DEL, and
\* two codepoints at and between the bounds the range tables are built from.
TextChars == {31, 65, 127, 301, 304}
RangePoints == {10, 300, 302, 304, 305}

\* The range tables: non-empty tuples of inclusive (start, end) pairs, in
\* ascending order and not overlapping.
RangePairs == {p \in RangePoints \X RangePoints : p[1] <= p[2]}

Tables ==
    {r \in SeqsUpTo(RangePairs, MaxRanges) :
        /\ r # <<>>
        /\ \A i \in 1..(Len(r) - 1) : r[i][2] < r[i + 1][1]}

\* Variant: the end of the last range taken as exclusive.
OutsideTableOpenEnd(codepoint, ranges) ==
    codepoint < ranges[1][1] \/ codepoint >= ranges[Len(ranges)][2]

\* The early return of binary_search (line 73); high = len(ranges) - 1.
OutsideTable(codepoint, ranges) ==
    codepoint < ranges[1][1] \/ codepoint > ranges[Len(ranges)][2]

\* The while loop of binary_search (lines 76-87); low, high and mid are
\* 0-based as in the code, ranges[mid] is ranges[mid + 1] here.
RECURSIVE BinaryLoop(_, _, _, _)
BinaryLoop(codepoint, ranges, low, high) ==
    IF low <= high
    THEN LET mid == (low + high) \div 2
             start == ranges[mid + 1][1]
             end == ranges[mid + 1][2]
         IN  IF codepoint > end
             THEN BinaryLoop(codepoint, ranges, mid + 1, high)
             ELSE IF codepoint < start
                  THEN BinaryLoop(codepoint, ranges, low, mid - 1)
                  ELSE 1
    ELSE 0

binary_search(codepoint, ranges) ==
    IF OutsideTable(codepoint, ranges)
    THEN 0
    ELSE BinaryLoop(codepoint, ranges, 0, Len(ranges) - 1)

\* The width of one character (lines 97-100 and 115-118).
char_width(character, ranges) ==
    IF 32 <= character /\ character < 127
    THEN 1
    ELSE 1 + binary_search(character, ranges)

\* Variant: only the first column of the character is tested.
PastLimitFirstColumn(total_width, cw, max_width) == total_width + 1 > max_width

\* The test that ends limit_width_wch (line 101).
PastLimit(total_width, cw, max_width) == total_width + cw > max_width

\* The for loop of limit_width_wch (lines 95-105); i is 0-based.
RECURSIVE LimitLoop(_, _, _, _, _)
LimitLoop(text, max_width, ranges, i, total_width) ==
    IF i < Len(text)
    THEN LET cw == char_width(text[i + 1], ranges)
         IN  IF PastLimit(total_width, cw, max_width)
             THEN <<SubSeq(text, 1, i), total_width>>
             ELSE LimitLoop(text, max_width, ranges, i + 1, total_width + cw)
    ELSE <<text, total_width>>

limit_width_wch(text, max_width, ranges) ==
    LimitLoop(text, max_width, ranges, 0, 0)

\* The for loop of len_wch (lines 113-118).
RECURSIVE LenLoop(_, _, _, _)
LenLoop(text, ranges, i, total_width) ==
    IF i < Len(text)
    THEN LenLoop(text, ranges, i + 1,
                 total_width + char_width(text[i + 1], ranges))
    ELSE total_width

len_wch(text, ranges) == LenLoop(text, ranges, 0, 0)

Texts == SeqsUpTo(TextChars, MaxTextLen)

WidthInputs ==
    [fn : {"limit_width_wch"}, text : Texts,
     max_width : -1..(2 * MaxTextLen + 1), ranges : Tables]
    \cup [fn : {"len_wch"}, text : Texts, ranges : Tables]

InitWidth ==
    /\ pc = "ready"
    /\ args \in WidthInputs
    /\ ret = NoValue
    /\ all_roles = <<>>
    /\ buffer = <<>>
    /\ dirty_lines = {}
    /\ failed = FALSE
    /\ dirty_lock = NoValue
    /\ screen = <<>>
    /\ local = <<>>

CallLimitWidthWch ==
    /\ pc = "ready"
    /\ args.fn = "limit_width_wch"
    /\ ret' = limit_width_wch(args.text, args.max_width, args.ranges)
    /\ pc' = "done"
    /\ UNCHANGED <<args, all_roles, buffer, dirty_lines, failed, dirty_lock, screen, local>>

CallLenWch ==
    /\ pc = "ready"
    /\ args.fn = "len_wch"
    /\ ret' = len_wch(args.text, args.ranges)
    /\ pc' = "done"
    /\ UNCHANGED <<args, all_roles, buffer, dirty_lines, failed, dirty_lock, screen, local>>

NextWidth == CallLimitWidthWch \/ CallLenWch

SpecWidth == InitWidth /\ [][NextWidth]_vars

(* ------------------- claims on the width functions --------------------- *)

\* Membership in some range of the table, by a linear test.
InSomeRange(codepoint, ranges) ==
    \E k \in 1..Len(ranges) :
        ranges[k][1] <= codepoint /\ codepoint <= ranges[k][2]

\* The display width of one codepoint and of a text, as specified.
DisplayWidthOf(codepoint, ranges) ==
    IF codepoint \in 32..126 THEN 1
    ELSE IF InSomeRange(codepoint, ranges) THEN 2 ELSE 1

DisplayWidth(text, ranges) ==
    SumSeq([k \in 1..Len(text) |-> DisplayWidthOf(text[k], ranges)])

\* C5: limit_width_wch returns the longest prefix whose display width does
\* not exceed max_width, with that prefix's width (a wide character past the
\* limit is left out whole); max_width <= 0 gives the empty prefix and 0; a
\* printable-ASCII text no longer than max_width is returned whole.
C5_LongestPrefixWithinLimit ==
    (pc = "done" /\ args.fn = "limit_width_wch") =>
        LET prefix == ret[1]
            width == ret[2]
            fits == {n \in 0..Len(args.text) :
                        DisplayWidth(SubSeq(args.text, 1, n), args.ranges)
                            <= args.max_width}
        IN  /\ Len(prefix) <= Len(args.text)
            /\ prefix = SubSeq(args.text, 1, Len(prefix))
            /\ width = DisplayWidth(prefix, args.ranges)
            /\ args.max_width <= 0 => (prefix = <<>> /\ width = 0)
            /\ args.max_width > 0 =>
                   /\ Len(prefix) \in fits
                   /\ \A n \in fits : n <= Len(prefix)
            /\ ( /\ \A k \in 1..Len(args.text) : args.text[k] \in 32..126
                 /\ args.max_width >= Len(args.text) )
                   => ret = <<args.text, Len(args.text)>>

\* A wide character that would pass the limit by one column is left out.
C5_Witness ==
    /\ pc = "done"
    /\ args.fn = "limit_width_wch"
    /\ Len(ret[1]) < Len(args.text)
    /\ Len(ret[1]) > 0
    /\ DisplayWidthOf(args.text[Len(ret[1]) + 1], args.ranges) = 2
    /\ ret[2] = args.max_width - 1

\* Codepoints at and around the ASCII bounds and the table bounds.
ProbeCodepoints ==
    {9, 10, 11, 31, 32, 65, 126, 127, 299, 300, 301, 302, 303, 304, 305, 306}

\* C6: len_wch counts 1 for a codepoint in 0x20..0x7E and otherwise 2 exactly
\* when the codepoint lies in a range of the table; binary_search agrees with
\* the linear membership test; a text of wide codepoints only has width
\* 2 * length.
C6_WidthByRangeMembership ==
    (pc = "done" /\ args.fn = "len_wch") =>
        /\ ret = DisplayWidth(args.text, args.ranges)
        /\ \A cp \in ProbeCodepoints \cup TextChars :
               /\ binary_search(cp, args.ranges) = 1
                      <=> InSomeRange(cp, args.ranges)
               /\ binary_search(cp, args.ranges) \in {0, 1}
               /\ char_width(cp, args.ranges) = DisplayWidthOf(cp, args.ranges)
        /\ (\A k \in 1..Len(args.text) :
                args.text[k] \notin 32..126 /\ InSomeRange(args.text[k], args.ranges))
               => ret = 2 * Len(args.text)

\* A text that mixes a wide codepoint of the last of three ranges, an ASCII
\* letter the table covers and a codepoint in a gap of the table.
C6_Witness ==
    /\ pc = "done"
    /\ args.fn = "len_wch"
    /\ Len(args.ranges) = 3
    /\ Len(args.text) = 3
    /\ \E k \in 1..3 : args.text[k] = args.ranges[3][2]
    /\ \E k \in 1..3 : args.text[k] \in 32..126 /\ InSomeRange(args.text[k], args.ranges)
    /\ \E k \in 1..3 : args.text[k] \notin 32..126 /\ ~InSomeRange(args.text[k], args.ranges)
    /\ ret = 4

(* ======================================================================= *)
(*       color.pyx: closest_color, int_to_rgb, convert_role_colors         *)
(* ======================================================================= *)

MaxPalette == 3
MaxGuilds == 2
MaxRoles == 2

\* Colours are (r, g, b) triples of bytes.
Black == <<0, 0, 0>>
Red == <<200, 0, 0>>
Blue == <<0, 0, 200>>
White == <<255, 255, 255>>

PaletteColors == {Black, Red, Blue, White}

\* The palettes: non-empty tuples of colours, repeated entries allowed.
Palettes == SeqsUpTo(PaletteColors, MaxPalette) \ {<<>>}

\* The colours looked up: the palette colours, colours at the same distance
\* from two or three of them, and colours next to one of them.
Rgbs ==
    PaletteColors
        \cup {<<100, 0, 0>>, <<100, 0, 100>>, <<0, 0, 1>>, <<255, 255, 254>>,
              <<0, 0, 100>>}

\* Variant: dg squared in the place of db squared.
DistBlueAsGreen(rgb, c) ==
    LET dr == rgb[1] - c[1]
        dg == rgb[2] - c[2]
    IN  dr * dr + dg * dg + dg * dg

\* dist of closest_color (lines 19-22).
Dist(rgb, c) ==
    LET dr == rgb[1] - c[1]
        dg == rgb[2] - c[2]
        db == rgb[3] - c[3]
    IN  dr * dr + dg * dg + db * db

\* Variant: <= in the place of <.
CloserOrEqual(dist, best_dist) == dist <= best_dist

\* The comparison that replaces the best entry (line 24).
Closer(dist, best_dist) == dist < best_dist

\* best_dist before the loop (line 14).
INT32_MAX == 2147483647

\* The for loop of closest_color (lines 17-26); i and best_idx are 0-based.
RECURSIVE ClosestLoop(_, _, _, _, _)
ClosestLoop(colors, rgb, i, best_dist, best_idx) ==
    IF i < Len(colors)
    THEN LET dist == Dist(rgb, colors[i + 1])
         IN  IF Closer(dist, best_dist)
             THEN ClosestLoop(colors, rgb, i + 1, dist, i)
             ELSE ClosestLoop(colors, rgb, i + 1, best_dist, best_idx)
    ELSE <<best_idx, colors[best_idx + 1]>>

closest_color(colors, rgb) == ClosestLoop(colors, rgb, 0, INT32_MAX, 0)

\* Variant: the bytes in the opposite order.
int_to_rgb_bgr(int_color) ==
    <<int_color % 256, (int_color \div 256) % 256, (int_color \div 65536) % 256>>

\* int_to_rgb (lines 31-36): >> 16, >> 8 and & 255 on a non-negative int.
int_to_rgb(int_color) ==
    <<(int_color \div 65536) % 256, (int_color \div 256) % 256, int_color % 256>>

\* Variant: the default never used.
RoleColorRaw(color, default) == color

\* The colour a role is quantized from (lines 52-54).
RoleColor(color, default) == IF color = 0 THEN default ELSE color

\* The loop over the roles of one guild (lines 49-59), k 0-based.  A role_id
\* of 0 stands for every falsy role_id (None, 0).
RECURSIVE RolesLoop(_, _, _, _, _)
RolesLoop(roles, colors, role_id, default, k) ==
    IF k < Len(roles)
    THEN LET role == roles[k + 1]
         IN  IF role_id # 0 /\ role.id # role_id
             THEN RolesLoop(roles, colors, role_id, default, k + 1)
             ELSE LET color == RoleColor(role.color, default)
                      rgb == int_to_rgb(color)
                      ansi == closest_color(colors, rgb)[1]
                      done == [roles EXCEPT ![k + 1].color = ansi]
                  IN  IF role_id # 0
                      THEN done
                      ELSE RolesLoop(done, colors, role_id, default, k + 1)
    ELSE roles

\* The loop over the guilds (lines 46-61), g 0-based.  A guild_id of 0 stands
\* for every falsy guild_id.
RECURSIVE GuildsLoop(_, _, _, _, _, _)
GuildsLoop(roles_all, colors, guild_id, role_id, default, g) ==
    IF g < Len(roles_all)
    THEN LET guild == roles_all[g + 1]
         IN  IF guild_id # 0 /\ guild.guild_id # guild_id
             THEN GuildsLoop(roles_all, colors, guild_id, role_id, default, g + 1)
             ELSE LET done == [roles_all EXCEPT ![g + 1].roles =
                                  RolesLoop(guild.roles, colors, role_id, default, 0)]
                  IN  IF guild_id # 0
                      THEN done
                      ELSE GuildsLoop(done, colors, guild_id, role_id, default, g + 1)
    ELSE roles_all

convert_role_colors(roles_all, colors, guild_id, role_id, default) ==
    GuildsLoop(roles_all, colors, guild_id, role_id, default, 0)

\* Packed 24-bit colours of roles (0: no colour set) and of the default.
\* red in bits 16-23, green in bits 8-15, blue in bits 0-7.
Packed(rgb) == rgb[1] * 65536 + rgb[2] * 256 + rgb[3]

Teal == <<1, 100, 200>>

RoleColors == {0, Packed(Red)}
DefaultColors == {Packed(Blue), Packed(White), Packed(Teal)}

\* Guild g (1-based position) has guild_id g; its r-th role has id 10 g + r:
\* ids are unique, as the ids of guilds and roles are.
RoleIdAt(g, r) == 10 * g + r

RoleLists(g) ==
    {[r \in 1..n |-> [id |-> RoleIdAt(g, r), color |-> cs[r]]] :
        <<n, cs>> \in {nc \in (0..MaxRoles) \X SeqsUpTo(RoleColors, MaxRoles) :
                          Len(nc[2]) = nc[1]}}

RECURSIVE GuildLists(_)
GuildLists(n) ==
    IF n = 0 THEN {<<>>}
    ELSE {Append(gs, [guild_id |-> n, roles |-> rs]) :
             gs \in GuildLists(n - 1), rs \in RoleLists(n)}

AllRoles == UNION {GuildLists(n) : n \in 0..MaxGuilds}

RolePalettes == {<<Black, Red, Blue, White>>, <<White, Blue, Black>>}

ColorInputs ==
    [fn : {"closest_color"}, colors : Palettes, rgb : Rgbs]
    \cup [fn : {"convert_role_colors"},
          all_roles : AllRoles,
          colors : RolePalettes,
          guild_id : 0..MaxGuilds,
          role_id : {0} \cup {RoleIdAt(g, r) : g \in 1..MaxGuilds, r \in 1..MaxRoles},
          default : DefaultColors]

InitColor ==
    /\ pc = "ready"
    /\ args \in ColorInputs
    /\ ret = NoValue
    /\ all_roles = IF args.fn = "convert_role_colors" THEN args.all_roles ELSE <<>>
    /\ buffer = <<>>
    /\ dirty_lines = {}
    /\ failed = FALSE
    /\ dirty_lock = NoValue
    /\ screen = <<>>
    /\ local = <<>>

CallClosestColor ==
    /\ pc = "ready"
    /\ args.fn = "closest_color"
    /\ ret' = closest_color(args.colors, args.rgb)
    /\ pc' = "done"
    /\ UNCHANGED <<args, all_roles, buffer, dirty_lines, failed, dirty_lock, screen, local>>

\* all_roles is converted in place and returned.
CallConvertRoleColors ==
    /\ pc = "ready"
    /\ args.fn = "convert_role_colors"
    /\ all_roles' = convert_role_colors(all_roles, args.colors, args.guild_id,
                                        args.role_id, args.default)
    /\ ret' = all_roles'
    /\ pc' = "done"
    /\ UNCHANGED <<args, buffer, dirty_lines, failed, dirty_lock, screen, local>>

NextColor == CallClosestColor \/ CallConvertRoleColors

SpecColor == InitColor /\ [][NextColor]_vars

(* ------------------- claims on the colour functions -------------------- *)

\* The squared Euclidean distance of two colours.
SqDist(a, b) ==
    (a[1] - b[1]) * (a[1] - b[1]) + (a[2] - b[2]) * (a[2] - b[2])
        + (a[3] - b[3]) * (a[3] - b[3])

\* The lowest 0-based index of colors at the least distance from rgb.
LowestNearest(colors, rgb) ==
    CHOOSE i \in 0..(Len(colors) - 1) :
        /\ \A j \in 0..(Len(colors) - 1) :
               SqDist(rgb, colors[i + 1]) <= SqDist(rgb, colors[j + 1])
        /\ \A j \in 0..(i - 1) :
               SqDist(rgb, colors[j + 1]) > SqDist(rgb, colors[i + 1])

ClosestDone == pc = "done" /\ args.fn = "closest_color"

\* C7: closest_color returns (i, palette[i]) with palette[i] at the least
\* squared distance from rgb over the whole palette and i the lowest index
\* at that distance.
C7_NearestLowestIndex ==
    ClosestDone =>
        LET i == ret[1]
        IN  /\ i \in 0..(Len(args.colors) - 1)
            /\ ret[2] = args.colors[i + 1]
            /\ \A j \in 0..(Len(args.colors) - 1) :
                   SqDist(args.rgb, args.colors[i + 1])
                       <= SqDist(args.rgb, args.colors[j + 1])
            /\ \A j \in 0..(i - 1) :
                   SqDist(args.rgb, args.colors[j + 1])
                       > SqDist(args.rgb, args.colors[i + 1])

\* Two entries tie at the least distance, the first of them not at index 0.
C7_Witness ==
    /\ ClosestDone
    /\ ret[1] = 1
    /\ Len(args.colors) = 3
    /\ args.colors[3] # args.colors[2]
    /\ SqDist(args.rgb, args.colors[3]) = SqDist(args.rgb, args.colors[2])
    /\ SqDist(args.rgb, args.colors[1]) > SqDist(args.rgb, args.colors[2])

\* C8 as stated: for every index k, closest_color(palette, palette[k])
\* returns index k, with distance 0.
C8_ExactEntryReturnsItsIndex ==
    ClosestDone =>
        \A k \in 0..(Len(args.colors) - 1) :
            args.rgb = args.colors[k + 1]
                => ret[1] = k /\ SqDist(args.rgb, ret[2]) = 0

\* C8 amended: closest_color(palette, palette[k]) returns the lowest index j
\* with palette[j] = palette[k] (k itself when no earlier entry is the same
\* colour), with distance 0.
C8_ExactEntryReturnsFirstEqual ==
    ClosestDone =>
        \A k \in 0..(Len(args.colors) - 1) :
            args.rgb = args.colors[k + 1]
                => /\ ret[1] <= k
                   /\ args.colors[ret[1] + 1] = args.colors[k + 1]
                   /\ \A j \in 0..(ret[1] - 1) : args.colors[j + 1] # args.rgb
                   /\ ((\A j \in 0..(k - 1) : args.colors[j + 1] # args.rgb)
                          => ret[1] = k)
                   /\ ret[2] = args.rgb
                   /\ SqDist(args.rgb, ret[2]) = 0

\* The looked-up colour is the last entry of the palette and no other.
C8_Witness ==
    /\ ClosestDone
    /\ Len(args.colors) = 3
    /\ args.rgb = args.colors[3]
    /\ args.rgb # args.colors[1]
    /\ args.rgb # args.colors[2]
    /\ ret = <<2, args.rgb>>

ConvertDone == pc = "done" /\ args.fn = "convert_role_colors"

\* The role at position r of the guild at position g is one the call selects.
Selected(g, r) ==
    /\ args.guild_id = 0 \/ args.all_roles[g].guild_id = args.guild_id
    /\ args.role_id = 0 \/ args.all_roles[g].roles[r].id = args.role_id

\* The bytes of a packed colour.
RedOf(c) == (c \div 65536) % 256

GreenOf(c) == (c \div 256) % 256

BlueOf(c) == c % 256

\* C9: convert_role_colors replaces the colour c of each selected role by
\* the index of the palette entry closest to the bytes of c (red bits 16-23,
\* green bits 8-15, blue bits 0-7), with the default colour in the place of
\* c = 0; every other role and every id is left as it was.
C9_RolesQuantizedWithDefault ==
    ConvertDone =>
        /\ ret = all_roles
        /\ Len(all_roles) = Len(args.all_roles)
        /\ \A g \in 1..Len(all_roles) :
            /\ all_roles[g].guild_id = args.all_roles[g].guild_id
            /\ Len(all_roles[g].roles) = Len(args.all_roles[g].roles)
            /\ \A r \in 1..Len(all_roles[g].roles) :
                LET before == args.all_roles[g].roles[r]
                    after == all_roles[g].roles[r]
                    c == IF before.color = 0 THEN args.default ELSE before.color
                IN  /\ after.id = before.id
                    /\ Selected(g, r) =>
                           after.color =
                               LowestNearest(args.colors,
                                             <<RedOf(c), GreenOf(c), BlueOf(c)>>)
                    /\ ~Selected(g, r) => after.color = before.color
        /\ \A c \in RoleColors \cup DefaultColors :
               int_to_rgb(c) = <<RedOf(c), GreenOf(c), BlueOf(c)>>

\* A role without a colour is given the index of the default colour, which
\* is not the index of black, while another role of its guild is quantized
\* from its own colour and the other guild is left alone.
C9_Witness ==
    /\ ConvertDone
    /\ args.guild_id = 1
    /\ args.role_id = 0
    /\ args.default = Packed(Teal)
    /\ Len(args.all_roles) = 2
    /\ Len(args.all_roles[1].roles) = 2
    /\ args.all_roles[1].roles[1].color = 0
    /\ args.all_roles[1].roles[2].color = Packed(Red)
    /\ all_roles[1].roles[1].color = LowestNearest(args.colors, Blue)
    /\ all_roles[1].roles[1].color # LowestNearest(args.colors, Black)
    /\ all_roles[1].roles[2].color = LowestNearest(args.colors, Red)
    /\ all_roles[2] = args.all_roles[2]
    /\ Len(all_roles[2].roles) = 2

(* ======================================================================= *)
(*                          pgcurses.pyx: insstr                           *)
(* ======================================================================= *)

NLines == 2
NCols == 3
MaxInsLen == 3

\* A cell is (glyph, attr).  Before the write every cell holds a glyph and
\* an attr that no write of the model writes, so every cell a write changes
\* differs from what it held.
OldCell == <<"o", 7>>

OldRow == [c \in 1..NCols |-> OldCell]

OldBuffer == [r \in 1..NLines |-> OldRow]

InsChars == {"a", "b", "\n"}
InsAttrs == {0, 1}

\* text.split("\n") (line 37): the pieces between the separators, empty
\* pieces kept; there is always at least one piece.
RECURSIVE SplitLinesFrom(_, _, _)
SplitLinesFrom(text, i, cur) ==
    IF i > Len(text)
    THEN <<cur>>
    ELSE IF text[i] = "\n"
         THEN <<cur>> \o SplitLinesFrom(text, i + 1, <<>>)
         ELSE SplitLinesFrom(text, i + 1, Append(cur, text[i]))

SplitLines(text) == SplitLinesFrom(text, 1, <<>>)

\* Lines 47-60 on one row: the cells x .. x + min_len - 1 take the characters
\* of line, and with padding the cells up to ncols - 1 take a space.  Columns
\* are 0-based, line_len > 0.
WriteRow(row_buffer, ncols, x, line, attr, padded) ==
    LET line_len == ncols - x
        min_len == IF line_len < Len(line) THEN line_len ELSE Len(line)
    IN  [c \in 1..Len(row_buffer) |->
            LET j == (c - 1) - x
            IN  IF 0 <= j /\ j < min_len
                THEN <<line[j + 1], attr>>
                ELSE IF padded /\ min_len < line_len /\ min_len <= j /\ j < line_len
                     THEN <<" ", attr>>
                     ELSE row_buffer[c]]

\* What buffer[row] does for row < 0.  The module is compiled with
\* boundscheck=False, wraparound=False (line 1): the list is read before its
\* first item, which is undefined.  The outcomes: the process crashes, the
\* read yields an object that is no row of the buffer, or it yields one of
\* the rows of the buffer.
NegativeRowOutcomes ==
    {<<"crash", 0>>, <<"foreign", 0>>} \cup {<<"row", r>> : r \in 0..(NLines - 1)}

\* The guard that ends the loop over the lines (lines 44-45).
PastLastRow(row, nlines) == row >= nlines

\* Variant: a row enters the dirty set only when the write gave one of its
\* cells a new value.
InsIterationMarksChanged(lines, i, st, nlines, ncols, y, x, attr, ub) ==
    LET line == lines[i + 1]
        row == y + i
        line_len == ncols - x
        padded == i < Len(lines) - 1
    IN  IF PastLastRow(row, nlines)
        THEN [st |-> st, go |-> FALSE]
        ELSE IF row < 0 /\ ub[1] = "crash"
        THEN [st |-> [st EXCEPT !.failed = TRUE], go |-> FALSE]
        ELSE IF line_len <= 0
        THEN [st |-> st, go |-> TRUE]
        ELSE LET target == IF row >= 0 THEN row
                           ELSE IF ub[1] = "row" THEN ub[2] ELSE -1
                 written ==
                     IF target < 0
                     THEN st.buffer
                     ELSE [st.buffer EXCEPT ![target + 1] =
                              WriteRow(@, ncols, x, line, attr, padded)]
             IN  [st |-> [st EXCEPT !.buffer = written,
                                    !.dirty_lines =
                                        IF written = st.buffer THEN @ ELSE @ \cup {row}],
                  go |-> TRUE]

\* One iteration of the loop over the lines (lines 42-62); i is 0-based, st
\* is [buffer, dirty_lines, failed], ub the outcome of a read at a negative
\* row.  go tells whether the loop goes on with line i + 1: it does not after
\* the break of line 45 and after a crash.
InsIteration(lines, i, st, nlines, ncols, y, x, attr, ub) ==
    LET line == lines[i + 1]
        row == y + i
        line_len == ncols - x
        padded == i < Len(lines) - 1
    IN  IF PastLastRow(row, nlines)
        THEN [st |-> st, go |-> FALSE]
        ELSE IF row < 0 /\ ub[1] = "crash"
        THEN [st |-> [st EXCEPT !.failed = TRUE], go |-> FALSE]
        ELSE IF line_len <= 0
        THEN [st |-> st, go |-> TRUE]
        ELSE LET target == IF row >= 0 THEN row
                           ELSE IF ub[1] = "row" THEN ub[2] ELSE -1
                 written ==
                     IF target < 0
                     THEN st.buffer
                     ELSE [st.buffer EXCEPT ![target + 1] =
                              WriteRow(@, ncols, x, line, attr, padded)]
             IN  [st |-> [st EXCEPT !.buffer = written,
                                    !.dirty_lines = @ \cup {row}],
                  go |-> TRUE]

\* The loop over the lines under the lock (lines 41-62), from line i on.
RECURSIVE InsLoop(_, _, _, _, _, _, _, _, _)
InsLoop(lines, i, st, nlines, ncols, y, x, attr, ub) ==
    IF i >= Len(lines) \/ st.failed
    THEN st
    ELSE LET it == InsIteration(lines, i, st, nlines, ncols, y, x, attr, ub)
         IN  IF it.go
             THEN InsLoop(lines, i + 1, it.st, nlines, ncols, y, x, attr, ub)
             ELSE it.st

insstr(st, nlines, ncols, y, x, text, attr, ub) ==
    InsLoop(SplitLines(text), 0, st, nlines, ncols, y, x, attr, ub)

InsstrInputs ==
    [fn : {"insstr"},
     y : -1..(NLines + 1),
     x : 0..(NCols + 1),
     text : SeqsUpTo(InsChars, MaxInsLen),
     attr : InsAttrs]

InitBuffer ==
    /\ pc = "ready"
    /\ args \in InsstrInputs
    /\ ret = NoValue
    /\ all_roles = <<>>
    /\ buffer = OldBuffer
    /\ dirty_lines = {}
    /\ failed = FALSE
    /\ dirty_lock = NoValue
    /\ screen = <<>>
    /\ local = <<>>

CallInsstr ==
    /\ pc = "ready"
    /\ args.fn = "insstr"
    /\ \E ub \in NegativeRowOutcomes :
        LET st == insstr([buffer |-> buffer, dirty_lines |-> dirty_lines,
                          failed |-> failed],
                         NLines, NCols, args.y, args.x, args.text, args.attr, ub)
        IN  /\ buffer' = st.buffer
            /\ dirty_lines' = st.dirty_lines
            /\ failed' = st.failed
    /\ pc' = "done"
    /\ UNCHANGED <<args, ret, all_roles, dirty_lock, screen, local>>

NextBuffer == CallInsstr

SpecBuffer == InitBuffer /\ [][NextBuffer]_vars

(* --------------------------- claims on insstr -------------------------- *)

\* The rows the segments of the written text are aimed at.
TargetRows == {args.y + i : i \in 0..(Len(SplitLines(args.text)) - 1)}

\* The write neither failed nor touched anything but the rows of the grid it
\* is aimed at, and the buffer has its shape.
WriteStayedInGrid ==
    /\ ~failed
    /\ Len(buffer) = NLines
    /\ \A r \in 1..NLines : Len(buffer[r]) = NCols
    /\ dirty_lines \subseteq (TargetRows \cap 0..(NLines - 1))
    /\ \A r \in 0..(NLines - 1) : r \notin TargetRows => buffer[r + 1] = OldRow
    /\ \A r \in 0..(NLines - 1) : \A c \in 0..(NCols - 1) :
           c < args.x => buffer[r + 1][c + 1] = OldCell

\* C10: a write at any row y (below 0, inside, at or past nlines) and any
\* column x >= 0 never fails, clips text past ncols, drops the segments
\* whose row is outside 0..nlines-1 without changing a cell or the dirty
\* set, and keeps the buffer at nlines rows of ncols cells.
C10_OutOfGridWritesDropped == pc = "done" => WriteStayedInGrid

\* The same for the writes that start at a row y >= 0: these are clipped at
\* ncols and dropped from row nlines on.
InsstrFromRowZeroStaysInGrid == (pc = "done" /\ args.y >= 0) => WriteStayedInGrid

InsstrClippedWitness ==
    /\ pc = "done"
    /\ args.y = NLines - 1
    /\ args.x = NCols - 1
    /\ args.text = <<"a", "b", "\n">>
    /\ buffer[NLines][NCols] = <<"a", args.attr>>
    /\ dirty_lines = {NLines - 1}

\* What the write of args leaves in cell (r, c) of the grid (both 0-based)
\* when every segment is written on its row: segment i = r - y covers the
\* columns from x on with its characters, a segment that is not the last
\* one continues with spaces up to the last column, and every other cell
\* keeps what it held.
SegmentCell(r, c) ==
    LET lines == SplitLines(args.text)
        i == r - args.y
        j == c - args.x
    IN  IF i < 0 \/ i >= Len(lines) \/ j < 0
        THEN OldCell
        ELSE IF j < Len(lines[i + 1])
             THEN <<lines[i + 1][j + 1], args.attr>>
             ELSE IF i < Len(lines) - 1
                  THEN <<" ", args.attr>>
                  ELSE OldCell

SegmentsWritten ==
    /\ ~failed
    /\ \A r \in 0..(NLines - 1) : \A c \in 0..(NCols - 1) :
           buffer[r + 1][c + 1] = SegmentCell(r, c)

\* C11: the text is split at the row separators and segment i is written on
\* row y + i from column x on; every segment but the last one is followed by
\* spaces of the same style up to column ncols - 1; the cells after the last
\* segment, the cells left of x and the rows that are not targeted keep
\* what they held.
C11_SegmentsWrittenRowByRow == pc = "done" => SegmentsWritten

\* The same for the writes that start at a row y >= 0.
SegmentsWrittenFromRowZero == (pc = "done" /\ args.y >= 0) => SegmentsWritten

SegmentsWrittenWitness ==
    /\ pc = "done"
    /\ args.y = 0
    /\ args.x = 1
    /\ args.text = <<"a", "\n", "b">>
    /\ buffer[1] = <<OldCell, <<"a", args.attr>>, <<" ", args.attr>>>>
    /\ buffer[2][2] = <<"b", args.attr>>
    /\ buffer[2][NCols] = OldCell

\* The rows of the grid in which the write changed a cell.
ChangedRows == {r \in 0..(NLines - 1) : buffer[r + 1] # OldRow}

\* C12: after an insstr call has returned, every row in which the call
\* changed at least one cell is in the dirty set.
C12_ChangedRowsAreDirty ==
    (pc = "done" /\ ~failed) => ChangedRows \subseteq dirty_lines

\* The same for the writes that start at a row y >= 0.
ChangedRowsAreDirtyFromRowZero ==
    (pc = "done" /\ ~failed /\ args.y >= 0) => ChangedRows \subseteq dirty_lines

ChangedRowsAreDirtyWitness ==
    /\ pc = "done"
    /\ args.y = 0
    /\ Len(SplitLines(args.text)) = 2
    /\ ChangedRows = {0, 1}
    /\ dirty_lines = {0, 1}

(* ======================================================================= *)
(*                          pgcurses.pyx: render                           *)
(* ======================================================================= *)

\* An attr is an unsigned 32-bit value.  It is kept as its two 16-bit halves,
\* Word(hi, lo) standing for hi * 65536 + lo: the low half is the id of the
\* color pair, the high half holds the flags.
Word(hi, lo) == <<hi, lo>>

\* The attribute flags (lines 6-9): 0x00010000, 0x00020000, 0x00200000 and
\* 0x80000000.
A_STANDOUT == Word(1, 0)
A_UNDERLINE == Word(2, 0)
A_BOLD == Word(32, 0)
A_ITALIC == Word(32768, 0)

\* flags & flag is not zero, for a flag of one bit in the high half.
HasFlag(attr, flag) == (attr[1] \div flag[1]) % 2 = 1

\* attr & 0xFFFF (lines 108, 146).
PairOf(attr) == attr[2]

\* A glyph is a one-character string; Sun names the character U+2600.
Sun == "U+2600"

\* The code point of a glyph.
Ord(ch) ==
    CASE ch = "\n" -> 10
      [] ch = " " -> 32
      [] ch = "a" -> 97
      [] ch = "b" -> 98
      [] ch = "o" -> 111
      [] ch = Sun -> 9728

\* is_emoji (lines 12-18).
is_emoji(ch) ==
    LET c == Ord(ch)
    IN  \/ 127744 <= c /\ c <= 129535
        \/ 9728 <= c /\ c <= 10175
        \/ 8960 <= c /\ c <= 9215
        \/ 11008 <= c /\ c <= 11263

\* color_map: entry k (0-based) is the (fg, bg) of color pair k.
ColorMap == << <<"white", "black">>, <<"red", "blue">> >>

\* The colors of a cell (lines 108-111 and 146-148): those of its pair,
\* exchanged under A_STANDOUT.
Colors(attr) ==
    LET color_pair == ColorMap[PairOf(attr) + 1]
    IN  IF HasFlag(attr, A_STANDOUT)
        THEN [fg |-> color_pair[2], bg |-> color_pair[1]]
        ELSE [fg |-> color_pair[1], bg |-> color_pair[2]]

\* The font of a text run (lines 152-162).
FontOf(attr) ==
    IF HasFlag(attr, A_BOLD)
    THEN IF HasFlag(attr, A_ITALIC) THEN "font_bold_italic" ELSE "font_bold"
    ELSE IF HasFlag(attr, A_ITALIC)
         THEN IF HasFlag(attr, A_ITALIC) THEN "font_bold_italic" ELSE "font_italic"
         ELSE "font_regular"

\* The calls on the screen.  x and n count cells: the pixel rectangle of a
\* fill is (x * char_width + pxx, y * char_height + pxy, n * char_width,
\* char_height), a text or an emoji is put at the left end of its rectangle.
FillOp(y, x, n, color) ==
    [op |-> "fill", y |-> y, x |-> x, n |-> n, text |-> <<>>, color |-> color,
     font |-> NoValue, underline |-> FALSE]

TextOp(y, x, text, color, font, underline) ==
    [op |-> "render_to", y |-> y, x |-> x, n |-> Len(text), text |-> text,
     color |-> color, font |-> font, underline |-> underline]

BlitOp(y, x, ch) ==
    [op |-> "blit", y |-> y, x |-> x, n |-> 2, text |-> <<ch>>,
     color |-> NoValue, font |-> "emoji_font", underline |-> FALSE]

\* Variant: the background of an emoji is one cell wide.
EmojiOpsOneColumn(y, draw_x, ch, attr, emoji_ok) ==
    <<FillOp(y, draw_x, 1, Colors(attr).bg)>>
        \o (IF emoji_ok THEN <<BlitOp(y, draw_x, ch)>> ELSE <<>>)

\* Lines 105-125: an emoji is drawn on two cells; emoji_ok tells whether
\* emoji_font.render and smoothscale succeeded (lines 114-118).
EmojiOps(y, draw_x, ch, attr, emoji_ok) ==
    <<FillOp(y, draw_x, 2, Colors(attr).bg)>>
        \o (IF emoji_ok THEN <<BlitOp(y, draw_x, ch)>> ELSE <<>>)

\* Variant: a run goes on over cells of the same color pair, whatever the
\* flags.
RunGoesOnSamePair(ch, attr2, attr) == PairOf(attr2) = PairOf(attr) /\ ~is_emoji(ch)

\* The test of line 134: the cell continues the run that started with attr.
RunGoesOn(ch, attr2, attr) == ~(attr2 # attr \/ is_emoji(ch))

\* The inner loop (lines 130-138): the number of cells from i on (0-based)
\* that are collected into text_buffer.
RECURSIVE RunLength(_, _, _, _)
RunLength(row, ncols, i, attr) ==
    IF i < ncols /\ RunGoesOn(row[i + 1][1], row[i + 1][2], attr)
    THEN 1 + RunLength(row, ncols, i + 1, attr)
    ELSE 0

\* Lines 145-165: the fill and the text of one run.
RunOps(y, span_draw_x, text, attr) ==
    <<FillOp(y, span_draw_x, Len(text), Colors(attr).bg),
      TextOp(y, span_draw_x, text, Colors(attr).fg, FontOf(attr),
             HasFlag(attr, A_UNDERLINE))>>

\* The loop over the cells of row y (lines 97-165) from cell i on; draw_x
\* equals i throughout, both advance together.
RECURSIVE RowScan(_, _, _, _, _)
RowScan(row, ncols, y, i, emoji_ok) ==
    IF i >= ncols
    THEN <<>>
    ELSE LET ch == row[i + 1][1]
             attr == row[i + 1][2]
         IN  IF is_emoji(ch)
             THEN EmojiOps(y, i, ch, attr, emoji_ok)
                      \o RowScan(row, ncols, y, i + 2, emoji_ok)
             ELSE LET n == RunLength(row, ncols, i, attr)
                      text == [k \in 1..n |-> row[i + k][1]]
                  IN  IF n = 0
                      THEN RowScan(row, ncols, y, i + 1, emoji_ok)
                      ELSE RunOps(y, i, text, attr)
                               \o RowScan(row, ncols, y, i + n, emoji_ok)

\* What buffer[y] yields in render (line 96).  For y < 0 the read is the
\* undefined one of NegativeRowOutcomes: a crash, an object that is no row
\* (reading its cells fails), or a row of the buffer.
RowRead(buf, y, ub) ==
    IF y >= 0 THEN [ok |-> TRUE, row |-> buf[y + 1]]
    ELSE IF ub[1] = "row" THEN [ok |-> TRUE, row |-> buf[ub[2] + 1]]
    ELSE [ok |-> FALSE, row |-> <<>>]

\* One iteration of the loop over the dirty rows (lines 96-165).
DrawRow(buf, ncols, y, ub, emoji_ok) ==
    LET r == RowRead(buf, y, ub)
    IN  IF r.ok THEN [ok |-> TRUE, ops |-> RowScan(r.row, ncols, y, 0, emoji_ok)]
                ELSE [ok |-> FALSE, ops |-> <<>>]

\* Variant: the dirty set is left as it is.
DirtyAfterPassKept(dirty) == dirty

\* dirty_lines.clear() (line 167).
DirtyAfterPass(dirty) == {}

\* The orders in which a loop over the set S can visit its elements.
Orders(S) ==
    {o \in [1..Cardinality(S) -> S] : \A i, j \in DOMAIN o : i # j => o[i] # o[j]}

\* The loop over the dirty rows (lines 95-165), visiting them in order from
\* its k-th element on: the calls on the screen, and whether a read of a
\* row failed and ended the pass.
RECURSIVE RenderLoop(_, _, _, _, _, _)
RenderLoop(buf, ncols, order, k, ub, emoji_ok) ==
    IF k > Len(order)
    THEN [ops |-> <<>>, failed |-> FALSE]
    ELSE LET d == DrawRow(buf, ncols, order[k], ub, emoji_ok)
         IN  IF ~d.ok
             THEN [ops |-> <<>>, failed |-> TRUE]
             ELSE LET rest == RenderLoop(buf, ncols, order, k + 1, ub, emoji_ok)
                  IN  [ops |-> d.ops \o rest.ops, failed |-> rest.failed]

\* render (lines 65-167): the pass under the lock and the clear after it.
\* draw_fails is the number of the call on the screen that raises, 0 when
\* none does: screen.fill, screen.blit and font.render_to (lines 112, 122,
\* 151, 165) are outside every try block, so the exception leaves the loop
\* and the with block, the calls after it and the clear of line 167 are not
\* made.  Only emoji_font.render and smoothscale are guarded (lines 114-118,
\* emoji_ok).
render(buf, dirty, ncols, order, ub, emoji_ok, draw_fails) ==
    LET r == RenderLoop(buf, ncols, order, 1, ub, emoji_ok)
    IN  IF draw_fails \in 1..Len(r.ops)
        THEN [ops |-> SubSeq(r.ops, 1, draw_fails - 1),
              dirty_lines |-> dirty,
              failed |-> TRUE,
              raised |-> r.ops[draw_fails]]
        ELSE [ops |-> r.ops,
              dirty_lines |-> IF r.failed THEN dirty ELSE DirtyAfterPass(dirty),
              failed |-> r.failed,
              raised |-> NoValue]

\* The cells the rows of a render call are drawn from: two glyphs, a space
\* and an emoji, two color pairs and a flag.
RenderCells ==
    {<<"a", Word(0, 0)>>, <<"b", Word(0, 0)>>, <<" ", Word(0, 1)>>,
     <<"a", A_UNDERLINE>>, <<Sun, Word(0, 0)>>}

StripedRow == [c \in 1..NCols |-> <<"o", Word(0, c % 2)>>]

\* The combinations of A_BOLD, A_ITALIC and A_UNDERLINE.
FontAttrs ==
    {Word(32 * b + 32768 * i + 2 * u, 0) : b \in {0, 1}, i \in {0, 1}, u \in {0, 1}}

\* Rows of two runs: the first cell in one of FontAttrs, the others in
\* another.
FontRows ==
    {[c \in 1..NCols |-> IF c = 1 THEN <<"a", f>> ELSE <<"b", g>>] :
        f \in FontAttrs, g \in FontAttrs}

\* Rows of one style, color pair 1 with or without A_STANDOUT, with an
\* emoji in one or in two columns.
EmojiRows ==
    {[c \in 1..NCols |-> <<IF c \in cols THEN Sun ELSE "a", Word(s, 1)>>] :
        s \in {0, 1},
        cols \in {S \in SUBSET (1..NCols) : Cardinality(S) \in {1, 2}}}

\* The buffers of a render call: the first or the last row is any row of
\* RenderCells or a row of FontRows or EmojiRows, the other rows are
\* striped.
RenderBuffers ==
    {[r \in 1..NLines |-> IF r = k THEN row ELSE StripedRow] :
        k \in {1, NLines},
        row \in [1..NCols -> RenderCells] \cup FontRows \cup EmojiRows}

\* The dirty sets of a render call: at most two indices, -1 among them.
RenderDirtySets == {d \in SUBSET (-1..(NLines - 1)) : Cardinality(d) <= 2}

\* The outcomes of the reads at negative rows that a pass over dirty makes.
RowReadOutcomes(dirty) ==
    IF \E y \in dirty : y < 0 THEN NegativeRowOutcomes ELSE {<<"crash", 0>>}

\* The arguments of a render call and what the backend does in it: a pass
\* in which no call on the screen raises, or a pass over rows of the buffer
\* in which one of the first three calls raises.
RenderInputs ==
    [fn : {"render"}, emoji_ok : BOOLEAN, dirty : RenderDirtySets, draw_fails : {0}]
        \cup [fn : {"render"}, emoji_ok : {TRUE},
              dirty : {d \in RenderDirtySets : \A y \in d : y >= 0},
              draw_fails : 1..3]

InitRender ==
    /\ pc = "ready"
    /\ args \in RenderInputs
    /\ ret = NoValue
    /\ all_roles = <<>>
    /\ buffer \in RenderBuffers
    /\ dirty_lines = args.dirty
    /\ failed = FALSE
    /\ dirty_lock = NoValue
    /\ screen = <<>>
    /\ local = <<>>

CallRender ==
    /\ pc = "ready"
    /\ args.fn = "render"
    /\ \E order \in Orders(dirty_lines) : \E ub \in RowReadOutcomes(dirty_lines) :
        LET r == render(buffer, dirty_lines, NCols, order, ub, args.emoji_ok,
                        args.draw_fails)
        IN  /\ screen' = r.ops
            /\ dirty_lines' = r.dirty_lines
            /\ failed' = r.failed
            /\ ret' = r.raised
    /\ pc' = "done"
    /\ UNCHANGED <<args, all_roles, buffer, dirty_lock, local>>

NextRender == CallRender

SpecRender == InitRender /\ [][NextRender]_vars

(* --------------------------- claims on render -------------------------- *)

\* The calls of the pass that draw on row y, in the order they were made.
OpsOfRow(y) == SelectSeq(screen, LAMBDA o : o.y = y)

HasEmoji(row) == \E c \in 1..Len(row) : is_emoji(row[c][1])

\* The columns (0-based) at which a maximal run of cells of one style
\* starts, and the column after the end of the run that starts at s.
RunStarts(row) ==
    {c \in 0..(Len(row) - 1) : c = 0 \/ row[c + 1][2] # row[c][2]}

RunEnd(row, s) ==
    CHOOSE e \in (s + 1)..Len(row) :
        /\ e = Len(row) \/ e \in RunStarts(row)
        /\ \A c \in (s + 1)..(e - 1) : c \notin RunStarts(row)

\* Every maximal run of row y got one fill and one text, the two next to
\* each other, the runs in column order, and nothing else was drawn on y.
DrawnRunByRun(y) ==
    LET row == buffer[y + 1]
        ops == OpsOfRow(y)
        starts == RunStarts(row)
    IN  /\ Len(ops) = 2 * Cardinality(starts)
        /\ \A s \in starts :
              LET k == Cardinality({u \in starts : u <= s})
                  e == RunEnd(row, s)
              IN  /\ ops[2 * k - 1].op = "fill"
                  /\ ops[2 * k - 1].x = s
                  /\ ops[2 * k - 1].n = e - s
                  /\ ops[2 * k].op = "render_to"
                  /\ ops[2 * k].x = s
                  /\ ops[2 * k].text = [j \in 1..(e - s) |-> row[s + j][1]]
        /\ \A c \in 0..(NCols - 1) : \A kind \in {"fill", "render_to"} :
              Cardinality({k \in 1..Len(ops) :
                  ops[k].op = kind /\ ops[k].x <= c /\ c < ops[k].x + ops[k].n}) = 1

\* C18: for every dirty row without a wide glyph, render issues one fill
\* and one text render per maximal run of consecutive cells of identical
\* style, in column order, the runs covering every column 0..ncols-1 once;
\* a row that is not in the dirty set gets no draw call.
C18_OneDrawPerStyleRun ==
    (pc = "done" /\ args.fn = "render" /\ ~failed) =>
        \A y \in 0..(NLines - 1) :
            /\ (y \in args.dirty /\ ~HasEmoji(buffer[y + 1])) => DrawnRunByRun(y)
            /\ y \notin args.dirty => OpsOfRow(y) = <<>>

C18_Witness ==
    /\ pc = "done"
    /\ ~failed
    /\ args.dirty = {0}
    /\ buffer[1] = <<<<"a", Word(0, 0)>>, <<"b", Word(0, 0)>>, <<"a", A_UNDERLINE>>>>
    /\ Len(screen) = 4
    /\ screen[1].op = "fill" /\ screen[1].x = 0 /\ screen[1].n = 2
    /\ screen[2].op = "render_to" /\ screen[2].text = <<"a", "b">>
    /\ screen[3].op = "fill" /\ screen[3].x = 2 /\ screen[3].n = 1
    /\ screen[4].underline
    /\ dirty_lines = {}

\* The cell a call on the screen starts at.
CellAt(o) == buffer[o.y + 1][o.x + 1]

\* The font the flags of a style name: bold and italic, bold, italic,
\* regular.
FontByFlags(attr) ==
    CASE HasFlag(attr, A_BOLD) /\ HasFlag(attr, A_ITALIC) -> "font_bold_italic"
      [] HasFlag(attr, A_BOLD) /\ ~HasFlag(attr, A_ITALIC) -> "font_bold"
      [] ~HasFlag(attr, A_BOLD) /\ HasFlag(attr, A_ITALIC) -> "font_italic"
      [] OTHER -> "font_regular"

\* The text renders of the pass on rows of the buffer.
TextRenders == {k \in 1..Len(screen) : screen[k].op = "render_to" /\ screen[k].y >= 0}

\* C25: the font of a run follows its flags (bold and italic: the
\* bold-italic font, bold only: the bold font, italic only: the italic
\* font, neither: the regular font), and A_UNDERLINE only sets the
\* underline property of that font: the row gets no further draw call.
C25_FontFollowsFlags ==
    (pc = "done" /\ args.fn = "render") =>
        /\ \A k \in TextRenders :
              /\ screen[k].font = FontByFlags(CellAt(screen[k])[2])
              /\ screen[k].underline = HasFlag(CellAt(screen[k])[2], A_UNDERLINE)
        /\ ~failed =>
              \A y \in 0..(NLines - 1) :
                  (y \in args.dirty /\ ~HasEmoji(buffer[y + 1])) =>
                      Len(OpsOfRow(y)) = 2 * Cardinality(RunStarts(buffer[y + 1]))

\* What holds of the fonts: every run but the italic-only ones has the
\* font of its flags, an italic-only run has the bold-italic font, and the
\* underline property follows A_UNDERLINE.
FontFollowsFlagsButItalicOnly ==
    (pc = "done" /\ args.fn = "render") =>
        \A k \in TextRenders :
            LET attr == CellAt(screen[k])[2]
            IN  /\ screen[k].font =
                       IF HasFlag(attr, A_ITALIC) THEN "font_bold_italic"
                       ELSE FontByFlags(attr)
                /\ screen[k].underline = HasFlag(attr, A_UNDERLINE)

\* An italic-only run was drawn.
ItalicOnlyRunDrawn ==
    /\ pc = "done"
    /\ ~failed
    /\ \E k \in TextRenders :
          /\ CellAt(screen[k])[2] = A_ITALIC
          /\ screen[k].font = "font_bold_italic"

\* The columns (1-based) of a row at which the scan meets a wide glyph: a
\* wide glyph in the column after one that was met is passed over.
RECURSIVE WideStartsFrom(_, _)
WideStartsFrom(row, c) ==
    IF c > Len(row) THEN {}
    ELSE IF is_emoji(row[c][1]) THEN {c} \cup WideStartsFrom(row, c + 2)
    ELSE WideStartsFrom(row, c + 1)

WideStarts(row) == WideStartsFrom(row, 1)

\* C26: a cell with a wide glyph is drawn as one glyph of two columns: one
\* fill of two columns in its background (the foreground of its pair under
\* A_STANDOUT), the glyph at its column when the emoji font renders it, no
\* text run over its column or the next one, and every other cell of the
\* row in exactly one text run, so that a run never goes on over it.
C26_WideGlyphOnTwoColumns ==
    (pc = "done" /\ args.fn = "render" /\ ~failed) =>
        \A y \in 0..(NLines - 1) :
            y \in args.dirty =>
                LET row == buffer[y + 1]
                    ops == OpsOfRow(y)
                    wide == WideStarts(row)
                    taken == wide \cup {c + 1 : c \in wide}
                    RunsOver(c) == {k \in 1..Len(ops) :
                                       /\ ops[k].op = "render_to"
                                       /\ ops[k].x < c /\ c <= ops[k].x + ops[k].n}
                IN  /\ \A c \in wide :
                          LET pair == ColorMap[row[c][2][2] + 1]
                              bg == IF HasFlag(row[c][2], A_STANDOUT)
                                    THEN pair[1] ELSE pair[2]
                          IN  /\ Cardinality({k \in 1..Len(ops) :
                                     ops[k] = FillOp(y, c - 1, 2, bg)}) = 1
                              /\ Cardinality({k \in 1..Len(ops) :
                                     ops[k].op = "fill" /\ ops[k].x = c - 1}) = 1
                              /\ Cardinality({k \in 1..Len(ops) :
                                     ops[k] = BlitOp(y, c - 1, row[c][1])}) =
                                         IF args.emoji_ok THEN 1 ELSE 0
                    /\ \A c \in 1..NCols :
                          Cardinality(RunsOver(c)) = IF c \in taken THEN 0 ELSE 1

C26_Witness ==
    /\ pc = "done"
    /\ ~failed
    /\ args.dirty = {0}
    /\ args.emoji_ok
    /\ buffer[1] = <<<<"a", Word(1, 1)>>, <<Sun, Word(1, 1)>>, <<"a", Word(1, 1)>>>>
    /\ Len(screen) = 4
    /\ screen[1] = FillOp(0, 0, 1, "red")
    /\ screen[2].op = "render_to" /\ screen[2].text = <<"a">>
    /\ screen[3] = FillOp(0, 1, 2, "red")
    /\ screen[4] = BlitOp(0, 1, Sun)

\* C27: when a call on the screen fails during a pass, the pass still draws
\* every run of every other dirty row and ends with the dirty set empty.
C27_DrawFailureDoesNotStopPass ==
    (pc = "done" /\ args.fn = "render" /\ args.draw_fails # 0) =>
        /\ dirty_lines = {}
        /\ \A y \in args.dirty :
              ((failed => y # ret.y) /\ ~HasEmoji(buffer[y + 1])) =>
                  DrawnRunByRun(y)

\* What holds of a failure of the emoji font, the one guarded call (lines
\* 114-118): the wide glyph is left out and the pass goes on to the end.
EmojiFailureDoesNotStopPass ==
    (pc = "done" /\ args.fn = "render" /\ ~args.emoji_ok /\ args.draw_fails = 0
        /\ \A y \in args.dirty : y >= 0) =>
        /\ dirty_lines = {}
        /\ ~failed
        /\ \A y \in args.dirty : OpsOfRow(y) # <<>>

\* A pass in which a call on the screen raised: it made no call after that
\* one and left the dirty set as it was.
PassStoppedByDrawFailure ==
    /\ pc = "done"
    /\ args.draw_fails = 1
    /\ failed
    /\ ret.op = "fill"
    /\ screen = <<>>
    /\ dirty_lines = args.dirty
    /\ Cardinality(dirty_lines) = 2

(* ======================================================================= *)
(*            pgcurses.pyx: insstr and render as threads                   *)
(* ======================================================================= *)
(* Writer threads call insstr, a painter thread calls render; both take    *)
(* dirty_lock for the whole of their loop (lines 40 and 94).  A step of a  *)
(* writer is one iteration of the loop over the lines, a step of the       *)
(* painter is one iteration of the loop over the dirty rows or the clear   *)
(* after it.                                                               *)
(*   pc[t]        where thread t stands                                    *)
(*   args[w]      the arguments of the insstr call writer w is in          *)
(*   dirty_lock   the thread that holds the lock, NoValue when it is free  *)
(*   screen       ops: the calls on the screen the pass under way has      *)
(*                made; painted: per row, the cells the last pass over the *)
(*                row drew                                                 *)
(*   local[w]     i: the loop index; before: buffer, dirty set and failed  *)
(*                when the lock was taken                                  *)
(*   local.calls  the insstr calls made so far                             *)
(*   local.p      todo: the dirty rows not visited yet; passes: the passes *)
(*                returned; follows: the pass started after a pass with no *)
(*                write in between                                         *)
(*   local.written  a writer has written since the last clear              *)
(*   local.touched  the row indices written at since the last clear        *)
(*   local.below    a write was aimed at a row below 0                     *)

MaxCalls == 2
MaxPasses == 2

Writers == {"w1", "w2"}
Painter == "p"
Threads == Writers \cup {Painter}

BlankCell == <<" ", Word(0, 0)>>
BlankRow == [c \in 1..NCols |-> BlankCell]
BlankBuffer == [r \in 1..NLines |-> BlankRow]

PaintTexts == {<<>>, <<"a">>, <<"b", "\n", "a">>}

PaintCalls ==
    [y : {-1, 0, NLines - 1}, x : {0}, text : PaintTexts, attr : {Word(0, 1)}]

\* Variant: the lock is given to whoever asks.
LockGivenToAll(holder) == TRUE

\* `with dirty_lock' (lines 40, 94) is entered when no thread holds the lock.
LockFree(holder) == holder = NoValue

InitPaint ==
    /\ pc = [t \in Threads |-> "idle"]
    /\ args = [w \in Writers |-> NoValue]
    /\ ret = NoValue
    /\ all_roles = <<>>
    /\ buffer = BlankBuffer
    /\ dirty_lines = {}
    /\ failed = FALSE
    /\ dirty_lock = NoValue
    /\ screen = [ops |-> <<>>, painted |-> BlankBuffer]
    /\ local = [w1 |-> [i |-> 0, before |-> NoValue],
                w2 |-> [i |-> 0, before |-> NoValue],
                p |-> [todo |-> {}, passes |-> 0, follows |-> FALSE],
                calls |-> 0,
                written |-> FALSE,
                touched |-> {},
                below |-> FALSE]

\* A thread calls insstr (line 21).
WriterCall(w) ==
    /\ ~failed
    /\ pc[w] = "idle"
    /\ local.calls < MaxCalls
    /\ \E call \in PaintCalls : args' = [args EXCEPT ![w] = call]
    /\ local' = [local EXCEPT !.calls = @ + 1]
    /\ pc' = [pc EXCEPT ![w] = "lock"]
    /\ UNCHANGED <<ret, all_roles, buffer, dirty_lines, failed, dirty_lock, screen>>

\* Line 40.
WriterAcquire(w) ==
    /\ ~failed
    /\ pc[w] = "lock"
    /\ LockFree(dirty_lock)
    /\ dirty_lock' = w
    /\ local' = [local EXCEPT ![w].i = 0,
                              ![w].before = [buffer |-> buffer,
                                             dirty_lines |-> dirty_lines,
                                             failed |-> failed]]
    /\ pc' = [pc EXCEPT ![w] = "loop"]
    /\ UNCHANGED <<args, ret, all_roles, buffer, dirty_lines, failed, screen>>

\* Lines 41-62, one iteration.
WriterIteration(w) ==
    /\ ~failed
    /\ pc[w] = "loop"
    /\ \E ub \in NegativeRowOutcomes :
        LET lines == SplitLines(args[w].text)
            i == local[w].i
            it == InsIteration(lines, i,
                               [buffer |-> buffer, dirty_lines |-> dirty_lines,
                                failed |-> failed],
                               NLines, NCols, args[w].y, args[w].x, args[w].attr, ub)
        IN  /\ buffer' = it.st.buffer
            /\ dirty_lines' = it.st.dirty_lines
            /\ failed' = it.st.failed
            /\ local' = [local EXCEPT ![w].i = i + 1,
                                      !.written = TRUE,
                                      !.touched =
                                          IF /\ args[w].y + i < NLines
                                             /\ args[w].x < NCols
                                             /\ ~it.st.failed
                                          THEN @ \cup {args[w].y + i}
                                          ELSE @,
                                      !.below = @ \/ args[w].y + i < 0]
            /\ pc' = [pc EXCEPT ![w] =
                         IF it.go /\ i + 1 < Len(lines) THEN "loop" ELSE "unlock"]
    /\ UNCHANGED <<args, ret, all_roles, dirty_lock, screen>>

\* The end of the with block (line 62) and the return.
WriterRelease(w) ==
    /\ ~failed
    /\ pc[w] = "unlock"
    /\ dirty_lock' = NoValue
    /\ local' = [local EXCEPT ![w].i = 0, ![w].before = NoValue]
    /\ args' = [args EXCEPT ![w] = NoValue]
    /\ pc' = [pc EXCEPT ![w] = "idle"]
    /\ UNCHANGED <<ret, all_roles, buffer, dirty_lines, failed, screen>>

\* A thread calls render (line 65).
PainterCall ==
    /\ ~failed
    /\ pc[Painter] = "idle"
    /\ local.p.passes < MaxPasses
    /\ pc' = [pc EXCEPT ![Painter] = "lock"]
    /\ UNCHANGED <<args, ret, all_roles, buffer, dirty_lines, failed, dirty_lock,
                   screen, local>>

\* Line 94.
PainterAcquire ==
    /\ ~failed
    /\ pc[Painter] = "lock"
    /\ LockFree(dirty_lock)
    /\ dirty_lock' = Painter
    /\ local' = [local EXCEPT !.p.todo = dirty_lines,
                              !.p.follows = local.p.passes > 0 /\ ~local.written]
    /\ screen' = [screen EXCEPT !.ops = <<>>]
    /\ pc' = [pc EXCEPT ![Painter] = "rows"]
    /\ UNCHANGED <<args, ret, all_roles, buffer, dirty_lines, failed>>

\* Lines 95-165, one iteration; the rows are visited in any order.
PainterRow ==
    /\ ~failed
    /\ pc[Painter] = "rows"
    /\ \E y \in local.p.todo : \E ub \in RowReadOutcomes({y}) : \E emoji_ok \in BOOLEAN :
        LET d == DrawRow(buffer, NCols, y, ub, emoji_ok)
        IN  /\ failed' = ~d.ok
            /\ screen' = [ops |-> screen.ops \o d.ops,
                          painted |-> IF d.ok /\ y >= 0
                                      THEN [screen.painted EXCEPT ![y + 1] = buffer[y + 1]]
                                      ELSE screen.painted]
            /\ local' = [local EXCEPT !.p.todo = @ \ {y}]
    /\ UNCHANGED <<pc, args, ret, all_roles, buffer, dirty_lines, dirty_lock>>

\* Line 167.
PainterClear ==
    /\ ~failed
    /\ pc[Painter] = "rows"
    /\ local.p.todo = {}
    /\ dirty_lines' = DirtyAfterPass(dirty_lines)
    /\ local' = [local EXCEPT !.written = FALSE, !.touched = {}]
    /\ pc' = [pc EXCEPT ![Painter] = "unlock"]
    /\ UNCHANGED <<args, ret, all_roles, buffer, failed, dirty_lock, screen>>

\* The end of the with block and the return.
PainterRelease ==
    /\ ~failed
    /\ pc[Painter] = "unlock"
    /\ dirty_lock' = NoValue
    /\ local' = [local EXCEPT !.p.passes = @ + 1]
    /\ screen' = [screen EXCEPT !.ops = <<>>]
    /\ pc' = [pc EXCEPT ![Painter] = "idle"]
    /\ UNCHANGED <<args, ret, all_roles, buffer, dirty_lines, failed>>

NextPaint ==
    \/ \E w \in Writers :
          WriterCall(w) \/ WriterAcquire(w) \/ WriterIteration(w) \/ WriterRelease(w)
    \/ PainterCall
    \/ PainterAcquire
    \/ PainterRow
    \/ PainterClear
    \/ PainterRelease

SpecPaint == InitPaint /\ [][NextPaint]_vars

(* ------------------ claims on insstr and render as threads ------------- *)

GridRows == 0..(NLines - 1)

\* The rows whose cells are not the cells the last pass over them drew.
StaleRows == {r \in GridRows : buffer[r + 1] # screen.painted[r + 1]}

\* C13 as stated: a row index is in the dirty set if and only if the cells
\* of that row differ from what the last paint pass drew for it (read in
\* the states in which no thread is inside insstr or render).
C13_DirtyIffStale ==
    (LockFree(dirty_lock) /\ ~failed) =>
        \A r \in -1..(NLines - 1) : r \in dirty_lines <=> r \in StaleRows

\* C13 amended: a row index is in the dirty set if and only if an insstr
\* call has written at that index (a segment aimed at it, below nlines,
\* with x < ncols) since the last paint pass cleared the set, whether or
\* not a cell got a new value.
C13_DirtyIffWrittenSinceClear == ~failed => dirty_lines = local.touched

\* A row rewritten with the cells the screen shows is in the dirty set.
C13_Witness ==
    /\ LockFree(dirty_lock)
    /\ ~local.below
    /\ local.p.passes = 1
    /\ screen.painted[1][1] = <<"a", Word(0, 1)>>
    /\ buffer = screen.painted
    /\ dirty_lines = {0}
    /\ local.touched = {0}

\* For the runs without a write aimed below row 0: a row that differs from
\* what was painted is in the dirty set.
StaleRowsAreDirty ==
    (LockFree(dirty_lock) /\ ~failed /\ ~local.below) => StaleRows \subseteq dirty_lines

\* The threads that are inside `with dirty_lock'.
InLock == {t \in Threads : pc[t] \in {"loop", "rows", "unlock"}}

\* C14: concurrent insstr calls do not interleave.  A thread inside the
\* with block holds the lock, so no two are inside; and when the loop of a
\* write has ended, buffer and dirty set are what the whole call makes of
\* the buffer and dirty set it found when it took the lock, so the writes
\* act one after the other and none is seen partly applied.
C14_WritesOneAfterTheOther ==
    /\ \A t \in InLock : dirty_lock = t
    /\ \A w \in Writers :
          pc[w] = "unlock" =>
              \E ub \in NegativeRowOutcomes :
                  [buffer |-> buffer, dirty_lines |-> dirty_lines, failed |-> failed]
                      = insstr(local[w].before, NLines, NCols,
                               args[w].y, args[w].x, args[w].text, args[w].attr, ub)

\* One writer is between its two rows, the other waits for the lock.
C14_Witness ==
    /\ pc.w2 = "loop"
    /\ local.w2.i = 1
    /\ args.w2.text = <<"b", "\n", "a">>
    /\ args.w2.y = 0
    /\ pc.w1 = "lock"
    /\ args.w1.y = 0
    /\ args.w1.text = <<"a">>
    /\ dirty_lock = "w2"
    /\ buffer[1][1] = <<"b", Word(0, 1)>>
    /\ buffer[2][1] = BlankCell

\* C15: writes and paint passes run under the same lock and no update is
\* lost: whenever no pass is under way, a row whose cells are not the ones
\* the last pass drew is still in the dirty set; and render clears the
\* dirty set only when it has drawn the latest cells of every row in it.
C15_NoUpdateLost ==
    /\ \A t \in InLock : dirty_lock = t
    /\ (dirty_lock # Painter /\ ~failed) => StaleRows \subseteq dirty_lines
    /\ (pc[Painter] = "rows" /\ local.p.todo = {}) =>
           \A r \in dirty_lines \cap GridRows : r \notin StaleRows

\* The same for the runs without a write aimed below row 0.
NoUpdateLostFromRowZero == local.below \/ C15_NoUpdateLost

NoUpdateLostWitness ==
    /\ ~local.below
    /\ pc[Painter] = "unlock"
    /\ pc.w1 = "lock"
    /\ screen.painted[1][1] = <<"b", Word(0, 1)>>
    /\ buffer = screen.painted
    /\ dirty_lines = {}

\* C16: when a render pass has cleared, the dirty set is empty; and a pass
\* that follows a pass with no write in between finds no row to visit and
\* makes no call on the screen.
C16_CleanPassDrawsNothing ==
    /\ pc[Painter] = "unlock" => dirty_lines = {}
    /\ (pc[Painter] \in {"rows", "unlock"} /\ local.p.follows) =>
           local.p.todo = {} /\ screen.ops = <<>>

C16_Witness ==
    /\ pc[Painter] = "unlock"
    /\ local.p.follows
    /\ local.p.passes = 1
    /\ screen.painted # BlankBuffer
    /\ screen.ops = <<>>
    /\ dirty_lines = {}

(* ======================================================================= *)
(*                           tui.pyx: draw_chat                            *)
(* ======================================================================= *)
(* win_chat is a window of h rows and w columns over a cell buffer: its    *)
(* insstr is the insstr of pgcurses.pyx on that buffer, its insch writes   *)
(* one cell, and curses.color_pair(n) is the attr whose color pair is n.   *)

\* a | b on 16 bits.
RECURSIVE BitOr(_, _)
BitOr(a, b) ==
    IF a = 0 THEN b
    ELSE IF b = 0 THEN a
    ELSE Max(a % 2, b % 2) + 2 * BitOr(a \div 2, b \div 2)

\* a | b on attrs.
WordOr(a, b) == Word(BitOr(a[1], b[1]), BitOr(a[2], b[2]))

\* curses.color_pair(n).
color_pair(n) == Word(0, n)

\* win_chat.insstr(y, x, text, attr); the rows draw_chat writes are rows of
\* the window.
win_insstr(st, h, w, y, x, text, attr) ==
    insstr(st, h, w, y, x, text, attr, <<"crash", 0>>)

\* win_chat.insch(y, x, ch, attr).
win_insch(st, h, w, y, x, ch, attr) ==
    insstr(st, h, w, y, x, <<ch>>, attr, <<"crash", 0>>)

\* safe_insch (lines 8-16).
safe_insch(st, h, w, y, x, ch, attr) ==
    IF Ord(ch) > 127
    THEN win_insstr(st, h, w, y, x, <<ch>>, attr)
    ELSE win_insch(st, h, w, y, x, ch, attr)

Spaces(n) == [i \in 1..n |-> " "]

\* Variant: the interval of a span is closed.
CoversClosed(format_part, pos) == format_part[2] <= pos /\ pos <= format_part[3]

\* The test of line 67 on a span (color, start, end).
Covers(format_part, pos) == format_part[2] <= pos /\ pos < format_part[3]

\* Variant: the last span that covers pos.
LastCovering(spans, pos) ==
    IF \E k \in 1..Len(spans) : Covers(spans[k], pos)
    THEN CHOOSE k \in 1..Len(spans) :
             /\ Covers(spans[k], pos)
             /\ \A m \in (k + 1)..Len(spans) : ~Covers(spans[m], pos)
    ELSE 0

\* The loop of lines 63-77 up to its break: the index in spans of the span
\* that styles pos, 0 when the loop ends without a break (line 78).
RECURSIVE FirstCoveringFrom(_, _, _)
FirstCoveringFrom(spans, pos, k) ==
    IF k > Len(spans) THEN 0
    ELSE IF Covers(spans[k], pos) THEN k
    ELSE FirstCoveringFrom(spans, pos, k + 1)

FirstCovering(spans, pos) == FirstCoveringFrom(spans, pos, 1)

\* Variant: the flags of a span are laid on color_default, the pair all
\* lines share.
SpanStyleOnSharedPair(color, default_color_id, attrib_map, color_default) ==
    IF color[1] >= 1
    THEN WordOr(color_pair(color_default), color)
    ELSE LET id == IF color[2] > 255 THEN color_default ELSE color[2]
         IN  WordOr(color_pair(id), attrib_map[id])

\* Variant: the pairs from 255 on are replaced (color >= 255).
SpanStyleFrom255(color, default_color_id, attrib_map, color_default) ==
    IF color[1] >= 1
    THEN WordOr(color_pair(default_color_id), color)
    ELSE LET id == IF color[2] >= 255 THEN color_default ELSE color[2]
         IN  WordOr(color_pair(id), attrib_map[id])

\* Lines 69-75: the attr a span color stands for.  A color from 0x00010000
\* on is a set of flags on the color pair of the line, a color above 255 is
\* color_default.
SpanStyle(color, default_color_id, attrib_map, color_default) ==
    IF color[1] >= 1
    THEN WordOr(color_pair(default_color_id), color)
    ELSE LET id == IF color[2] > 255 THEN color_default ELSE color[2]
         IN  WordOr(color_pair(id), attrib_map[id])

\* Line 58.
DefaultColor(default_color_id, attrib_map) ==
    WordOr(color_pair(default_color_id), attrib_map[default_color_id])

\* Lines 62-79 for one position: the attr its character is written with.
CharStyle(line_format, pos, attrib_map, color_default) ==
    LET spans == Tail(line_format)
        default_color_id == line_format[1][1]
        k == FirstCovering(spans, pos)
    IN  IF k = 0
        THEN DefaultColor(default_color_id, attrib_map)
        ELSE SpanStyle(spans[k][1], default_color_id, attrib_map, color_default)

\* Variant: the fill is one space short and has no row separator.
FillTextShort(w) == Spaces(w - 1)

\* The text of the fill of line 59.
FillText(w) == Spaces(w) \o <<"\n">>

\* The loop of lines 61-79 from position pos on.
RECURSIVE DrawChars(_, _, _, _, _, _, _, _, _)
DrawChars(st, h, w, y, line, line_format, pos, attrib_map, color_default) ==
    IF pos >= Min(Len(line), w)
    THEN st
    ELSE DrawChars(safe_insch(st, h, w, y, pos, line[pos + 1],
                              CharStyle(line_format, pos, attrib_map, color_default)),
                   h, w, y, line, line_format, pos + 1, attrib_map, color_default)

\* Lines 55-79: a line that is not the selected one.
DrawLine(st, h, w, y, line, line_format, attrib_map, color_default) ==
    DrawChars(win_insstr(st, h, w, y, 0, FillText(w), color_pair(line_format[1][1])),
              h, w, y, line, line_format, 0, attrib_map, color_default)

\* Variant: the selected line is written without its padding.
DrawSelectedUnpadded(st, h, w, y, line) ==
    win_insstr(st, h, w, y, 0, line, color_pair(16))

\* Lines 52-53: the selected line.
DrawSelected(st, h, w, y, line) ==
    win_insstr(st, h, w, y, 0, line \o Spaces(w - Len(line)) \o <<"\n">>,
               color_pair(16))

\* The loop of lines 42-79 from num on; the result holds the window and y as
\* the loop leaves it.
RECURSIVE DrawLines(_, _, _, _, _, _, _, _, _, _)
DrawLines(st, y, num, h, w, chat_buffer, chat_format, chat_index, chat_selected, cfg) ==
    LET line_idx == chat_index + num
    IN  IF num >= Len(chat_buffer) - chat_index \/ line_idx >= Len(chat_buffer)
        THEN [st |-> st, y |-> y]
        ELSE LET y2 == h - (num + 1)
             IN  IF y2 < 0 \/ y2 >= h
                 THEN [st |-> st, y |-> y2]
                 ELSE LET line == chat_buffer[line_idx + 1]
                          drawn ==
                              IF num = chat_selected - chat_index
                              THEN DrawSelected(st, h, w, y2, line)
                              ELSE DrawLine(st, h, w, y2, line,
                                            chat_format[chat_index + num + 1],
                                            cfg.attrib_map, cfg.color_default)
                      IN  DrawLines(drawn, y2, num + 1, h, w, chat_buffer,
                                    chat_format, chat_index, chat_selected, cfg)

\* Variant: the loop ends one row early (y > 0).
RECURSIVE FillAboveSkipsTop(_, _, _, _)
FillAboveSkipsTop(st, h, w, y) ==
    IF y < 1
    THEN st
    ELSE FillAboveSkipsTop(win_insstr(st, h, w, y, 0, <<"\n">>, color_pair(0)),
                           h, w, y - 1)

\* The loop of lines 83-85.
RECURSIVE FillAbove(_, _, _, _)
FillAbove(st, h, w, y) ==
    IF y < 0
    THEN st
    ELSE FillAbove(win_insstr(st, h, w, y, 0, <<"\n">>, color_pair(0)), h, w, y - 1)

\* draw_chat (lines 19-85).
draw_chat(st, h, w, chat_buffer, chat_format, chat_index, chat_selected, cfg) ==
    LET r == DrawLines(st, h, 0, h, w, chat_buffer, chat_format, chat_index,
                       chat_selected, cfg)
    IN  FillAbove(r.st, h, w, r.y - 1)

\* The window before the call: h = NLines rows of w = NCols cells that hold
\* what an earlier draw left.
StaleCell == <<"o", Word(0, 7)>>
StaleBuffer == [r \in 1..NLines |-> [c \in 1..NCols |-> StaleCell]]

\* attrib_map, one entry for each of the 256 pairs: color 1 is underlined,
\* color 3 is bold, color 255 is italic, the others have no attribute.
ChatAttribMap ==
    [id \in 0..255 |-> CASE id = 1 -> A_UNDERLINE
                         [] id = 3 -> A_BOLD
                         [] id = 255 -> A_ITALIC
                         [] OTHER -> Word(0, 0)]

ChatConfig == [attrib_map |-> ChatAttribMap, color_default |-> 2]

\* The span colors: color pairs up to 255, pairs past 255 (up to the
\* largest value below 0x00010000) and sets of flags (from 0x00010000 on).
SpanColors ==
    {Word(0, 3), Word(0, 255), Word(0, 256), Word(0, 65535), A_STANDOUT, A_BOLD}

ChatSpans == {<<c, s, e>> : c \in SpanColors, s \in {0, 1}, e \in {1, NCols}}

\* The spans that come second in a list.
LaterSpans == {<<c, s, e>> : c \in {Word(0, 3), Word(0, 256), A_BOLD},
                             s \in {0, 1}, e \in {1, NCols}}

SpanLists ==
    {<<>>} \cup {<<s>> : s \in ChatSpans} \cup {<<s, u>> : s \in ChatSpans, u \in LaterSpans}

\* A line_format: the default color id of the line, then its spans.
LineFormats == {<<<<d>>>> \o sl : d \in {1, 2}, sl \in SpanLists}

LineOf(n) == [i \in 1..n |-> IF i % 2 = 1 THEN "a" ELSE "b"]

ChatLines == {LineOf(n) : n \in {0, 1, 2, NCols, NCols + 1}}

DrawChatInputs ==
    [fn : {"draw_chat"},
     lines : 0..(NLines + 1),
     chat_index : {0, 1},
     chat_selected : {-1, 0, 1},
     line : ChatLines,
     line_format : LineFormats]

\* chat_buffer and chat_format of a call: the line at chat_index is the
\* line of args with its format, every other line is "b" in color 2
\* without spans.
ChatBuffer(a) ==
    [j \in 1..a.lines |-> IF j = a.chat_index + 1 THEN a.line ELSE <<"b">>]

ChatFormat(a) ==
    [j \in 1..a.lines |-> IF j = a.chat_index + 1 THEN a.line_format ELSE <<<<2>>>>]

InitChat ==
    /\ pc = "ready"
    /\ args \in DrawChatInputs
    /\ ret = NoValue
    /\ all_roles = <<>>
    /\ buffer = StaleBuffer
    /\ dirty_lines = {}
    /\ failed = FALSE
    /\ dirty_lock = NoValue
    /\ screen = <<>>
    /\ local = <<>>

CallDrawChat ==
    /\ pc = "ready"
    /\ args.fn = "draw_chat"
    /\ LET st == draw_chat([buffer |-> buffer, dirty_lines |-> dirty_lines,
                            failed |-> failed],
                           NLines, NCols, ChatBuffer(args), ChatFormat(args),
                           args.chat_index, args.chat_selected, ChatConfig)
       IN  /\ buffer' = st.buffer
           /\ dirty_lines' = st.dirty_lines
           /\ failed' = st.failed
    /\ pc' = "done"
    /\ UNCHANGED <<args, ret, all_roles, dirty_lock, screen, local>>

NextChat == CallDrawChat

SpecChat == InitChat /\ [][NextChat]_vars

(* -------------------------- claims on draw_chat ------------------------ *)

\* The line of args is drawn, on the bottom row, and it is not the selected
\* line.
LineDrawnWithSpans ==
    /\ pc = "done"
    /\ args.fn = "draw_chat"
    /\ args.chat_index < args.lines
    /\ args.chat_selected # args.chat_index

BottomRow == buffer[NLines]

LineSpans == Tail(args.line_format)
LineDefaultId == args.line_format[1][1]

\* The positions of the line that are on the row.
LinePositions == 0..(Min(Len(args.line), NCols) - 1)

\* The spans that cover pos, as indices of the span list.
Covering(pos) ==
    {k \in 1..Len(LineSpans) : LineSpans[k][2] <= pos /\ pos < LineSpans[k][3]}

StyleOfSpan(k) ==
    SpanStyle(LineSpans[k][1], LineDefaultId, ChatAttribMap, ChatConfig.color_default)

\* C17 as stated: after a line shorter than the width is written, every
\* cell of its row that the text does not cover holds a space with the
\* default style, the style the characters outside every span are written
\* with.
C17_RestOfRowInDefaultStyle ==
    LineDrawnWithSpans =>
        \A c \in 0..(NCols - 1) :
            c >= Len(args.line) =>
                BottomRow[c + 1] = <<" ", DefaultColor(LineDefaultId, ChatAttribMap)>>

\* C17 amended: the cells the text does not cover hold a space with the
\* default color pair of the line, without the attribute flags attrib_map
\* gives that color.
C17_RestOfRowInDefaultPair ==
    LineDrawnWithSpans =>
        \A c \in 0..(NCols - 1) :
            c >= Len(args.line) => BottomRow[c + 1] = <<" ", Word(0, LineDefaultId)>>

C17_Witness ==
    /\ LineDrawnWithSpans
    /\ args.line = <<"a">>
    /\ args.line_format = <<<<1>>>>
    /\ BottomRow = <<<<"a", Word(2, 1)>>, <<" ", Word(0, 1)>>, <<" ", Word(0, 1)>>>>

\* C19: the character at position p has the style of the first span of the
\* list with start <= p < end, and the default style of the line when no
\* span covers p.
C19_FirstCoveringSpanStyles ==
    LineDrawnWithSpans =>
        \A p \in LinePositions :
            BottomRow[p + 1] =
                <<args.line[p + 1],
                  IF Covering(p) = {}
                  THEN DefaultColor(LineDefaultId, ChatAttribMap)
                  ELSE StyleOfSpan(CHOOSE k \in Covering(p) :
                                       \A m \in Covering(p) : k <= m)>>

C19_Witness ==
    /\ LineDrawnWithSpans
    /\ args.line = <<"a", "b">>
    /\ args.line_format = <<<<2>>, <<Word(0, 3), 1, NCols>>>>
    /\ BottomRow[1] = <<"a", Word(0, 2)>>
    /\ BottomRow[2] = <<"b", Word(32, 3)>>

\* C20 as stated: of two spans that cover p, the later one of the list
\* styles p.
C20_LaterSpanWins ==
    LineDrawnWithSpans =>
        \A p \in LinePositions :
            \A k, m \in Covering(p) : k < m => BottomRow[p + 1][2] = StyleOfSpan(m)

\* C20 amended: of the spans that cover p, the earliest one of the list
\* styles p, whatever spans come later.
C20_EarlierSpanWins ==
    LineDrawnWithSpans =>
        \A p \in LinePositions :
            \A k, m \in Covering(p) :
                (k < m /\ \A j \in Covering(p) : k <= j) =>
                    BottomRow[p + 1][2] = StyleOfSpan(k)

C20_Witness ==
    /\ LineDrawnWithSpans
    /\ args.line = <<"a", "b">>
    /\ args.line_format = <<<<2>>, <<Word(0, 3), 0, NCols>>, <<A_BOLD, 1, NCols>>>>
    /\ BottomRow[2] = <<"b", Word(32, 3)>>
    /\ BottomRow[2][2] # StyleOfSpan(2)

\* The number of lines from chat_index on that the viewport shows.
ShownLines == Min(Max(args.lines - args.chat_index, 0), NLines)

\* The characters of a line on a row of the width: the line, cut at the
\* width and followed by spaces.
RowText(line) == [c \in 1..NCols |-> IF c <= Len(line) THEN line[c] ELSE " "]

Glyphs(row) == [c \in 1..NCols |-> row[c][1]]

BlankChatRow == [c \in 1..NCols |-> <<" ", Word(0, 0)>>]

\* C21: after draw_chat over h rows, row h-1-k holds line chat_index+k for
\* every k below min(lines from chat_index on, h), every row above the
\* topmost drawn line is a full-width row of spaces in color pair 0, and
\* no cell keeps what an earlier draw left.
C21_EveryRowRewritten ==
    (pc = "done" /\ args.fn = "draw_chat") =>
        /\ \A k \in 0..(ShownLines - 1) :
               Glyphs(buffer[NLines - k]) =
                   RowText(ChatBuffer(args)[args.chat_index + k + 1])
        /\ \A r \in 1..(NLines - ShownLines) : buffer[r] = BlankChatRow
        /\ \A r \in 1..NLines : \A c \in 1..NCols : buffer[r][c] # StaleCell

C21_Witness ==
    /\ pc = "done"
    /\ args.fn = "draw_chat"
    /\ args.lines = 1
    /\ args.chat_index = 0
    /\ args.chat_selected = -1
    /\ args.line = <<"a", "b">>
    /\ Glyphs(buffer[NLines]) = RowText(<<"a", "b">>)
    /\ buffer[1] = BlankChatRow

\* C22: a visible line that is the selected one is written with color pair
\* 16 in every cell of its row: its characters, cut at the width, then
\* spaces up to the width; none of its spans is applied.
C22_SelectedLineInPair16 ==
    (pc = "done" /\ args.fn = "draw_chat") =>
        LET num == args.chat_selected - args.chat_index
        IN  (0 <= num /\ num < ShownLines) =>
                buffer[NLines - num] =
                    [c \in 1..NCols |->
                        <<RowText(ChatBuffer(args)[args.chat_selected + 1])[c],
                          Word(0, 16)>>]

C22_Witness ==
    /\ pc = "done"
    /\ args.fn = "draw_chat"
    /\ args.lines = 1
    /\ args.chat_index = 0
    /\ args.chat_selected = 0
    /\ args.line = <<"a", "b">>
    /\ args.line_format = <<<<1>>, <<A_BOLD, 0, NCols>>>>
    /\ BottomRow[1] = <<"a", Word(0, 16)>>
    /\ BottomRow[2] = <<"b", Word(0, 16)>>
    /\ BottomRow[NCols] = <<" ", Word(0, 16)>>

\* The color of the span that styles position pos: the first span of the
\* list that covers it.
StylingColor(pos) ==
    LineSpans[CHOOSE k \in Covering(pos) : \A m \in Covering(pos) : k <= m][1]

\* The three readings of a style value.
IsFlags(color) == color[1] >= 1
IsOverflowPair(color) == color[1] = 0 /\ color[2] >= 256
IsPair(color) == color[1] = 0 /\ color[2] <= 255

\* C28: a character whose span style is a set of flags (>= 0x00010000) is
\* written with the default color pair of its own line and those flags.
C28_FlagsOnLinePair ==
    LineDrawnWithSpans =>
        \A p \in LinePositions :
            (Covering(p) # {} /\ IsFlags(StylingColor(p))) =>
                /\ PairOf(BottomRow[p + 1][2]) = LineDefaultId
                /\ BottomRow[p + 1][2][1] = StylingColor(p)[1]

C28_Witness ==
    /\ LineDrawnWithSpans
    /\ ~failed
    /\ args.line = <<"a", "b">>
    /\ args.line_format = <<<<1>>, <<A_BOLD, 1, NCols>>, <<Word(0, 3), 0, NCols>>>>
    /\ BottomRow[1] = <<"a", Word(32, 3)>>
    /\ BottomRow[2] = <<"b", Word(32, 1)>>

\* C29: a span style that is a pair index in 256..65535 is written as
\* color_default (with the attributes attrib_map gives it) and no error
\* occurs, an index in 0..255 is written as that pair, and every style
\* value has exactly one of the three readings.
C29_OverflowPairIsColorDefault ==
    LineDrawnWithSpans =>
        /\ ~failed
        /\ \A p \in LinePositions :
               Covering(p) # {} =>
                   LET color == StylingColor(p)
                       attr == BottomRow[p + 1][2]
                   IN  /\ IsOverflowPair(color) =>
                              attr = WordOr(Word(0, ChatConfig.color_default),
                                            ChatAttribMap[ChatConfig.color_default])
                       /\ IsPair(color) =>
                              attr = WordOr(Word(0, color[2]), ChatAttribMap[color[2]])
                       /\ Cardinality({b \in {<<1, IsFlags(color)>>,
                                                <<2, IsOverflowPair(color)>>,
                                                <<3, IsPair(color)>>} : b[2]}) = 1

C29_Witness ==
    /\ LineDrawnWithSpans
    /\ ~failed
    /\ args.line = <<"a", "b">>
    /\ args.line_format = <<<<1>>, <<Word(0, 256), 0, 1>>, <<Word(0, 3), 0, NCols>>>>
    /\ BottomRow[1] = <<"a", Word(0, 2)>>
    /\ BottomRow[2] = <<"b", Word(32, 3)>>

(* ======================================================================= *)
(*                      media.pyx: img_to_curses                           *)
(* ======================================================================= *)
(* The screen is a window of screen_height rows and screen_width columns;  *)
(* its cells are in buffer, the calls made on it in screen (row, column    *)
(* and length of each write), the glyph indices computed in ret.           *)

MaxScreenW == 3
MaxScreenH == 4
MaxRamp == 3

\* Variant: the divisor is 256.
GlyphIndex256(gray_val, ascii_palette_len) == (gray_val * ascii_palette_len) \div 256

\* The index of line 43.
GlyphIndex(gray_val, ascii_palette_len) == (gray_val * ascii_palette_len) \div 255

\* The glyph ramp of n characters, a space first.
Ramp(n) == [i \in 1..n |-> IF i = 1 THEN " " ELSE IF i % 2 = 0 THEN "a" ELSE "b"]

\* What ascii_palette[index] yields in line 43.  The module is compiled
\* with boundscheck=False (line 1): an index from the length of the list on
\* reads past its last item, which is undefined; the process crashes or
\* the read yields an object that is no glyph of the ramp.
PastRampOutcomes == {"crash", "foreign"}

GlyphRead(ascii_palette, index, ub) ==
    IF index < Len(ascii_palette)
    THEN [ok |-> TRUE, ch |-> ascii_palette[index + 1]]
    ELSE IF ub = "foreign" THEN [ok |-> TRUE, ch |-> "?"]
    ELSE [ok |-> FALSE, ch |-> "?"]

\* pixels_gray[x, y] and pixels[x, y]: an image of one tone whose
\* quantized colors alternate.
PixelGray(a, x, y) == a.tone
PixelColor(a, x, y) == (x + y) % 2

\* A state of the call: the window, the writes made and the indices
\* computed.
ImgStart(cells) ==
    [st |-> [buffer |-> cells, dirty_lines |-> {}, failed |-> FALSE],
     log |-> <<>>,
     indices |-> <<>>]

\* screen.insstr(y, x, text, attr) and screen.insch(y, x, ch, attr) on the
\* window of the arguments a.
ImgInsstr(s, a, y, x, text, attr) ==
    [s EXCEPT !.st = win_insstr(s.st, a.screen_height, a.screen_width, y, x, text, attr),
              !.log = Append(@, [y |-> y, x |-> x, n |-> Len(text)])]

ImgInsch(s, a, y, x, ch, attr) ==
    [s EXCEPT !.st = win_insch(s.st, a.screen_height, a.screen_width, y, x, ch, attr),
              !.log = Append(@, [y |-> y, x |-> x, n |-> 1])]

\* Lines 25-27.
PaddingH(a) == (a.screen_height - a.height) \div 2
PaddingW(a) == (a.screen_width - a.width) \div 2
BgColor(a) == color_pair(a.start_color_id + 1)

\* Lines 30-31, from y_fill on.
RECURSIVE TopPadding(_, _, _)
TopPadding(s, a, y_fill) ==
    IF y_fill >= PaddingH(a)
    THEN s
    ELSE TopPadding(ImgInsstr(s, a, y_fill, 0, Spaces(a.screen_width), BgColor(a)),
                    a, y_fill + 1)

\* Lines 41-45, from x on.
RECURSIVE PixelCells(_, _, _, _, _)
PixelCells(s, a, y, x, ub) ==
    IF x >= a.width \/ s.st.failed
    THEN s
    ELSE LET index == GlyphIndex(PixelGray(a, x, y), a.ascii_palette_len)
             character == GlyphRead(a.ascii_palette, index, ub)
             color == a.start_color_id + PixelColor(a, x, y) + 16
             seen == [s EXCEPT !.indices = Append(@, index)]
         IN  IF ~character.ok
             THEN [seen EXCEPT !.st.failed = TRUE]
             ELSE PixelCells(ImgInsch(seen, a, y + PaddingH(a), x + PaddingW(a),
                                      character.ch, color_pair(color)),
                             a, y, x + 1, ub)

\* Variant: the right padding is one space longer.
RightPaddingOneMore(s, a, row_y, x) ==
    IF x + PaddingW(a) + 1 < a.screen_width
    THEN ImgInsstr(s, a, row_y, x + PaddingW(a) + 1,
                   Spaces(a.screen_width - (x + PaddingW(a))), BgColor(a))
    ELSE s

\* Lines 48-49; x is the last value of the loop over the pixels.
RightPadding(s, a, row_y, x) ==
    IF x + PaddingW(a) + 1 < a.screen_width
    THEN ImgInsstr(s, a, row_y, x + PaddingW(a) + 1,
                   Spaces(a.screen_width - (x + PaddingW(a) + 1)), BgColor(a))
    ELSE s

\* Lines 34-49, from y on.
RECURSIVE ImageRows(_, _, _, _)
ImageRows(s, a, y, ub) ==
    IF y >= a.height \/ s.st.failed
    THEN s
    ELSE LET row_y == y + PaddingH(a)
             left == IF PaddingW(a) > 0
                     THEN ImgInsstr(s, a, row_y, 0, Spaces(PaddingW(a)), BgColor(a))
                     ELSE s
             pixels == PixelCells(left, a, y, 0, ub)
         IN  IF pixels.st.failed
             THEN pixels
             ELSE ImageRows(RightPadding(pixels, a, row_y, a.width - 1), a, y + 1, ub)

\* Lines 53-57, from y_fill on: padding_h + 1 rows from the last row up.
RECURSIVE BottomPadding(_, _, _)
BottomPadding(s, a, y_fill) ==
    IF y_fill >= PaddingH(a) + 1
    THEN s
    ELSE BottomPadding(ImgInsstr(s, a, a.screen_height - 1 - y_fill, 0,
                                 Spaces(a.screen_width), BgColor(a)),
                       a, y_fill + 1)

\* img_to_curses (lines 6-59).
img_to_curses(cells, a, ub) ==
    LET rows == ImageRows(TopPadding(ImgStart(cells), a, 0), a, 0, ub)
    IN  IF rows.st.failed
        THEN rows
        ELSE IF a.screen_height # a.height
        THEN BottomPadding(rows, a, 0)
        ELSE rows

\* The calls: every screen up to MaxScreenW x MaxScreenH with every image
\* that fits it, in the darkest and the brightest tone; and a screen of one
\* cell with an image of every tone.  ascii_palette_len is the length of
\* the ramp or its last index.
ImgSizes ==
    {sz \in [screen_width : 1..MaxScreenW, screen_height : 1..MaxScreenH,
             width : 1..MaxScreenW, height : 1..MaxScreenH] :
        sz.width <= sz.screen_width /\ sz.height <= sz.screen_height}

ImgCall(sz, tone, len, ramp) ==
    [fn |-> "img_to_curses", start_color_id |-> 100,
     screen_width |-> sz.screen_width, screen_height |-> sz.screen_height,
     width |-> sz.width, height |-> sz.height,
     tone |-> tone, ascii_palette_len |-> len, ascii_palette |-> Ramp(ramp)]

ImgInputs ==
    {ImgCall(sz, tone, len, len + more) :
        sz \in ImgSizes, tone \in {0, 255}, len \in 1..MaxRamp, more \in {0, 1}}
    \cup
    {ImgCall(sz, tone, len, len + more) :
        sz \in {s \in ImgSizes : s.screen_width = 1 /\ s.screen_height = 1},
        tone \in 0..255, len \in 1..MaxRamp, more \in {0, 1}}

StaleScreen(a) ==
    [r \in 1..a.screen_height |-> [c \in 1..a.screen_width |-> StaleCell]]

InitImage ==
    /\ pc = "ready"
    /\ args \in ImgInputs
    /\ ret = <<>>
    /\ all_roles = <<>>
    /\ buffer = StaleScreen(args)
    /\ dirty_lines = {}
    /\ failed = FALSE
    /\ dirty_lock = NoValue
    /\ screen = <<>>
    /\ local = <<>>

CallImgToCurses ==
    /\ pc = "ready"
    /\ args.fn = "img_to_curses"
    /\ \E ub \in PastRampOutcomes :
        LET s == img_to_curses(buffer, args, ub)
        IN  /\ buffer' = s.st.buffer
            /\ dirty_lines' = s.st.dirty_lines
            /\ failed' = s.st.failed
            /\ screen' = s.log
            /\ ret' = s.indices
    /\ pc' = "done"
    /\ UNCHANGED <<args, all_roles, dirty_lock, local>>

NextImage == CallImgToCurses

SpecImage == InitImage /\ [][NextImage]_vars

(* ----------------------- claims on img_to_curses ----------------------- *)

ImgDone == pc = "done" /\ args.fn = "img_to_curses"

RampLength == Len(args.ascii_palette)

\* C23 as stated: the glyph index of a pixel is luminance * ramp_length
\* // 256, a valid index 0..ramp_length-1 into the ramp.
C23_GlyphIndexBy256 ==
    ImgDone =>
        \A k \in 1..Len(ret) :
            /\ ret[k] = (args.tone * RampLength) \div 256
            /\ 0 <= ret[k] /\ ret[k] <= RampLength - 1

\* C23 amended: the glyph index is luminance * ascii_palette_len // 255;
\* for every luminance 0..255 it lies in 0..ascii_palette_len and is
\* ascii_palette_len at luminance 255 only, so it is a valid index into the
\* ramp when ascii_palette_len is at most the last index of the ramp.
C23_GlyphIndexBy255 ==
    ImgDone =>
        \A k \in 1..Len(ret) :
            /\ 255 * ret[k] <= args.tone * args.ascii_palette_len
            /\ args.tone * args.ascii_palette_len < 255 * (ret[k] + 1)
            /\ 0 <= ret[k] /\ ret[k] <= args.ascii_palette_len
            /\ ret[k] = args.ascii_palette_len <=> args.tone = 255
            /\ args.ascii_palette_len <= RampLength - 1 =>
                  (~failed /\ ret[k] <= RampLength - 1)

C23_Witness ==
    /\ ImgDone
    /\ ~failed
    /\ args.tone = 255
    /\ args.ascii_palette_len = MaxRamp
    /\ RampLength = MaxRamp + 1
    /\ ret = <<MaxRamp>>
    /\ buffer[1][1][1] = Ramp(MaxRamp + 1)[MaxRamp + 1]

\* C24: every cell the call writes is in rows 0..screen_height-1 and
\* columns 0..screen_width-1, for every image that fits the screen, also
\* when screen_height differs from height.
C24_WritesInsideScreen ==
    ImgDone =>
        \A k \in 1..Len(screen) :
            /\ 0 <= screen[k].y /\ screen[k].y <= args.screen_height - 1
            /\ 0 <= screen[k].x
            /\ screen[k].x + screen[k].n <= args.screen_width

C24_Witness ==
    /\ ImgDone
    /\ ~failed
    /\ args.screen_height = 4 /\ args.height = 1
    /\ args.screen_width = 3 /\ args.width = 1
    /\ \E k \in 1..Len(screen) : screen[k] = [y |-> 3, x |-> 0, n |-> 3]
    /\ \E k \in 1..Len(screen) : screen[k] = [y |-> 1, x |-> 2, n |-> 1]
    /\ \E k \in 1..Len(screen) : screen[k] = [y |-> 0, x |-> 0, n |-> 3]

\* The cell of the pixel (x, y) of the image.
PixelCell(x, y) ==
    <<args.ascii_palette[ret[1] + 1], Word(0, args.start_color_id + ((x + y) % 2) + 16)>>

\* Row y of the image shows its pixels on row y + pad_h of the screen.
ImageRowShown(y) ==
    \A x \in 0..(args.width - 1) :
        buffer[y + PaddingH(args) + 1][x + PaddingW(args) + 1] = PixelCell(x, y)

PaddingRow(a) == [c \in 1..a.screen_width |-> <<" ", Word(0, a.start_color_id + 1)>>]

\* C30: after the call every row y of the image shows its pixels on row
\* y + pad_h, and the rows of padding are the rows outside
\* pad_h..pad_h+height-1.
C30_PaddingKeepsImage ==
    (ImgDone /\ ~failed /\ ret # <<>> /\ ret[1] <= RampLength - 1) =>
        /\ \A y \in 0..(args.height - 1) : ImageRowShown(y)
        /\ \A r \in 0..(args.screen_height - 1) :
              (r < PaddingH(args) \/ r >= PaddingH(args) + args.height)
                  <=> buffer[r + 1] = PaddingRow(args)

\* What holds of the padding: when screen_height - height is odd or zero,
\* the image is kept and the padding rows are the rows outside the image.
PaddingKeepsImageOddDifference ==
    (ImgDone /\ ~failed /\ ret # <<>> /\ ret[1] <= RampLength - 1
        /\ (args.screen_height = args.height
               \/ (args.screen_height - args.height) % 2 = 1)) =>
        /\ \A y \in 0..(args.height - 1) : ImageRowShown(y)
        /\ \A r \in 0..(args.screen_height - 1) :
              (r < PaddingH(args) \/ r >= PaddingH(args) + args.height)
                  => buffer[r + 1] = PaddingRow(args)

\* The last row of the image was overwritten by the bottom padding.
LastImageRowOverwritten ==
    /\ ImgDone
    /\ ~failed
    /\ args.screen_height = 4 /\ args.height = 2
    /\ args.screen_width = 1 /\ args.width = 1
    /\ args.tone = 255 /\ args.ascii_palette_len = 1 /\ RampLength = 2
    /\ buffer[2] = <<PixelCell(0, 0)>>
    /\ buffer[3] = PaddingRow(args)
    /\ buffer[3] # <<PixelCell(0, 1)>>

====
